---- MODULE Spec2Model ----
\* Haven Desktop: per-application audio routing and mixing.
\* Main process: AudioRouter (route table, OS-level route applier, the 5 s
\* session poll, driver installation).  Renderer: the voice integration
\* (AudioMixer, AudioCaptureStream, syncRoutedApps, replaceVoiceTrack).
EXTENDS Integers, Sequences, FiniteSets, TLC

\* ---------------------------------------------------------------- values

\* Process names the model lets run and be routed.
ProcNames == {"game", "music"}

\* Target endpoints a route may name.
Devices == {"CABLE Input", "haven_virtual"}

\* The OS-level output target of a process that has not been redirected.
DefaultDevice == "DefaultRenderDevice"

\* A JavaScript property that is undefined (or null).
Absent == "<absent>"

\* The JavaScript value null given as a route.
NullRoute == [null |-> TRUE]

\* Largest volume the model hands to setRoute (the UI slider ends at 200).
MaxVolumeInput == 250

\* Volumes the model hands to setRoute.
Volumes == {0, 150, MaxVolumeInput}

\* JavaScript truthiness of a string-valued property.
Truthy(s) == s \notin {Absent, ""}

\* route?.field : undefined when the route itself is null.
Field(route, f) == IF route = NullRoute THEN Absent ELSE route[f]

Route(pn, td, v) == [processName |-> pn, targetDevice |-> td, volume |-> v]

\* Well-formed routes the model hands to setRoute: every volume on the first
\* endpoint, one volume on the other.
ValidRoutes ==
    {Route(pn, "CABLE Input", v) : pn \in ProcNames, v \in Volumes} \cup
    {Route(pn, "haven_virtual", 150) : pn \in ProcNames}

\* Routes with a missing or empty processName or targetDevice, and null.
InvalidRoutes ==
    {NullRoute} \cup
    {Route(pn, "CABLE Input", 100) : pn \in {"", Absent}} \cup
    {Route("game", td, 100) : td \in {"", Absent}}

RouteInputs == ValidRoutes \cup InvalidRoutes

\* Route lists the settings store may hold when the application starts.
StoredAtStart == {<< >>, << Route("game", "CABLE Input", 100) >>}

Platforms == {"win32", "linux", "darwin"}

\* Number of 'audio:installDriver' requests the renderer makes.
MaxInstallCalls == 2

InstallCalls == 1..MaxInstallCalls

NoResult == [success |-> FALSE, reason |-> "<pending>"]

\* Number of join() calls of one behaviour; each creates at most one AudioMixer.
MaxJoins == 1

\* Number of further join() calls where call sessions follow one another.
MaxRejoins == 1

\* Number of AudioCaptureStream objects one behaviour creates.
MaxCaptures == 2

\* Number of syncRoutedApps passes that can be in flight together.
MaxPasses == 2

\* Number of remote peers.
MaxPeers == 2

\* Number of tunnels (localtunnel clients, cloudflared processes) one
\* behaviour creates.
MaxTunnels == 2

\* Number of startTunnel calls of one behaviour.
MaxTunnelCalls == 2

MixerIds == 1..(MaxJoins + MaxRejoins)
CaptureIds == 1..MaxCaptures
PassIds == 1..MaxPasses
PeerIds == 1..MaxPeers
TunnelIds == 1..MaxTunnels
TunnelCallIds == 1..MaxTunnelCalls

\* Media streams: none, the raw microphone, the output of mixer m.
NullStream == << "null" >>
MicStream == << "mic" >>
MixedStream(m) == << "mixed", m >>

\* ---------------------------------------------------------------- state

VARIABLES
    platform,       \* process.platform
    linuxAudio,     \* this._linuxAudio is non-null (PipeWire or PulseAudio found)
    svv,            \* SoundVolumeView.exe can be found on this machine
    routes,         \* AudioRouter.routes
    store,          \* the persisted 'audioRoutes' value
    pollInterval,   \* AudioRouter._pollInterval is set
    initialized,    \* initialize() has run
    osDriver,       \* the OS lists a virtual audio endpoint
    sessions,       \* process names with an active OS audio session
    osTarget,       \* OS-level output endpoint of each process
    exited,         \* names whose process has exited and not come back
    restarted,      \* names that exited and came back since the last poll tick
    lastCall,       \* the AudioRouter operation that has just returned: its input
                    \* and what it did (forgotten at the next OS event)
    timers,         \* number of live interval timers of the main process
    linuxModuleId,  \* AudioRouter._linuxModuleId is set
    installerFile,  \* VBCABLE_Setup_x64.exe exists in the driver directory
    instPc,         \* where each 'audio:installDriver' request stands
    instResult,     \* what each 'audio:installDriver' request returned
    instInput,      \* what each request was given: the answer to the confirmation
                    \* dialog and the installer's exit code
    voice,          \* the renderer: the voice integration's module state, its
                    \* objects, the VoiceManager and the async calls in flight
    tunnel          \* tunnel.js: its module variables, the tunnels it has made
                    \* and the startTunnel calls in flight

cfgVars == << platform, linuxAudio, svv >>
tableVars == << routes, store, osTarget, lastCall >>
procVars == << sessions, exited, restarted >>
pollVars == << pollInterval, timers >>
installVars == << linuxModuleId, installerFile, instPc, instResult, instInput >>

vars == << cfgVars, tableVars, procVars, pollVars, installVars, initialized, osDriver,
          voice, tunnel >>

\* op: the operation; route, proc: its argument; had: the table held an entry
\* for that name when it was called; success: the result's success field;
\* applied: the names _applyRoute was invoked for; osCalls: the OS commands
\* run; snapshot, restarted: what a poll tick fetched, and the names that had
\* restarted since the tick before; again: the call before it was a setRoute
\* with the same route (for cleanup: had is whether _pollInterval was set,
\* again whether the call before it was a cleanup too); queryOk: the OS session query of getAudioApplications
\* worked; returned: the list getRoutes handed back.
NoCall == [op |-> "none", route |-> NullRoute, proc |-> Absent, had |-> FALSE,
           success |-> TRUE, applied |-> {}, osCalls |-> {}, snapshot |-> {},
           restarted |-> {}, again |-> FALSE, queryOk |-> TRUE, returned |-> << >>]

\* ---------------------------------------------------------------- AudioRouter

RouteNames(rs) == {rs[i].processName : i \in DOMAIN rs}

\* A removal by splice(indexOf(name), 1): index -1 takes the last entry.
WithoutSplice(rs, name) ==
    IF \E i \in DOMAIN rs : rs[i].processName = name
    THEN SelectSeq(rs, LAMBDA r : r.processName # name)
    ELSE SubSeq(rs, 1, Len(rs) - 1)

\* this.routes.filter(r => r.processName !== name)
Without(rs, name) == SelectSeq(rs, LAMBDA r : r.processName # name)

\* isDriverInstalled(): the probe of the OS device list.
IsDriverInstalled ==
    CASE platform = "linux" -> linuxAudio /\ osDriver
      [] platform = "win32" -> osDriver
      [] OTHER -> FALSE

\* A getAudioApplications() that hands on what it has when the query fails.
AudioApplicationsNoCatch(queryOk) ==
    IF platform \in {"win32", "linux"} THEN sessions ELSE {}

\* getAudioApplications(): the names with a session, or the empty list when
\* the OS query throws (the catch); always empty on other platforms.
AudioApplicationsOf(queryOk) ==
    IF platform \in {"win32", "linux"} /\ queryOk THEN sessions ELSE {}

\* The results getAudioApplications() can give.
AudioApplications == {AudioApplicationsOf(queryOk) : queryOk \in BOOLEAN}

\* ipcMain.handle('audio:getRunningApps'): getAudioApplications() is called
\* and returns.
GetAudioApplications(queryOk) ==
    /\ initialized
    /\ lastCall' = [NoCall EXCEPT !.op = "getAudioApplications",
                                  !.snapshot = AudioApplicationsOf(queryOk),
                                  !.queryOk = queryOk]
    /\ UNCHANGED << tunnel, cfgVars, routes, store, osTarget, procVars, pollVars, installVars,
                    initialized, osDriver, voice >>

\* The `routed` flag getAudioApplications() gives an application.
AppRouted(rs, name) == \E i \in DOMAIN rs : rs[i].processName = name

\* _applyLinuxRoute(route): outcomes as [target, calls].
ApplyLinuxRoute(route, osT) ==
    LET pn == route.processName
        listed == {apps \in {sessions, {}} : TRUE}
        notFound == [target |-> osT, calls |-> {"pactl list sink-inputs"}]
        moveFailed == [target |-> osT,
                       calls |-> {"pactl list sink-inputs", "pactl move-sink-input"}]
        moved == [target |-> [osT EXCEPT ![pn] = route.targetDevice],
                  calls |-> {"pactl list sink-inputs", "pactl move-sink-input"}]
    IN  UNION {IF pn \in apps THEN {notFound, moveFailed, moved} ELSE {notFound}
               : apps \in listed}

\* An _applyRoute that does nothing without SoundVolumeView.
ApplyWindowsRouteNoFallback(route, osT) ==
    IF svv
    THEN {[target |-> [osT EXCEPT ![route.processName] = route.targetDevice],
           calls |-> {"SoundVolumeView /SetAppDefault"}],
          [target |-> osT,
           calls |-> {"SoundVolumeView /SetAppDefault", "ms-settings:apps-volume"}]}
    ELSE {[target |-> osT, calls |-> {}]}

\* _applyRoute(route) on Windows: SoundVolumeView when found, else (or when it
\* fails) the ms-settings fallback.
ApplyWindowsRoute(route, osT) ==
    IF svv
    THEN {[target |-> [osT EXCEPT ![route.processName] = route.targetDevice],
           calls |-> {"SoundVolumeView /SetAppDefault"}],
          [target |-> osT,
           calls |-> {"SoundVolumeView /SetAppDefault", "ms-settings:apps-volume"}]}
    ELSE {[target |-> osT, calls |-> {"ms-settings:apps-volume"}]}

\* _applyRoute(route): the outcomes the OS can produce.
ApplyRoute(route, osT) ==
    CASE platform = "linux" -> ApplyLinuxRoute(route, osT)
      [] platform = "win32" -> ApplyWindowsRoute(route, osT)
      [] OTHER -> {[target |-> osT, calls |-> {}]}

\* _restoreWindowsDefault(processName)
RestoreWindowsDefault(name, osT) ==
    IF ~svv
    THEN {[target |-> osT, calls |-> {}]}
    ELSE {[target |-> [osT EXCEPT ![name] = DefaultDevice],
           calls |-> {"SoundVolumeView /SetAppDefault"}],
          [target |-> osT, calls |-> {"SoundVolumeView /SetAppDefault"}]}

\* A save that is left out: the store keeps what it held.
StoreSetSkipped(held, rs) == held

\* this.store.set('audioRoutes', this.routes): what the store holds afterwards.
StoreSet(held, rs) == rs

\* setRoute that pushes without filtering the old entry out.
SetRouteListNoFilter(rs, route) == Append(rs, route)

\* The route list setRoute leaves: the old entry filtered out, the route pushed.
SetRouteList(rs, route) == Append(Without(rs, route.processName), route)

\* A guard that checks the processName only.
SetRouteRejectsNameOnly(route) == ~Truthy(Field(route, "processName"))

\* The guard of setRoute: which routes it rejects.
SetRouteRejects(route) ==
    ~Truthy(Field(route, "processName")) \/ ~Truthy(Field(route, "targetDevice"))

\* setRoute(route)
SetRoute(route) ==
    /\ initialized
    /\ IF SetRouteRejects(route)
       THEN /\ lastCall' = [NoCall EXCEPT !.op = "setRoute", !.route = route,
                                          !.success = FALSE]
            /\ UNCHANGED << routes, store, osTarget >>
       ELSE /\ routes' = SetRouteList(routes, route)
            /\ store' = StoreSet(store, routes')
            /\ \E out \in ApplyRoute(route, osTarget) :
                 /\ osTarget' = out.target
                 /\ lastCall' = [NoCall EXCEPT !.op = "setRoute", !.route = route,
                                   !.had = AppRouted(routes, route.processName),
                                   !.again = /\ lastCall.op = "setRoute"
                                             /\ lastCall.success
                                             /\ lastCall.route = route,
                                   !.success = TRUE, !.applied = {route.processName},
                                   !.osCalls = out.calls]
    /\ UNCHANGED << tunnel, cfgVars, procVars, pollVars, installVars, initialized, osDriver,
                    voice >>

\* removeRoute(processName)
RemoveRoute(name) ==
    /\ initialized
    /\ routes' = Without(routes, name)
    /\ store' = StoreSet(store, routes')
    /\ \E out \in (IF platform = "win32" THEN RestoreWindowsDefault(name, osTarget)
                   ELSE {[target |-> osTarget, calls |-> {}]}) :
         /\ osTarget' = out.target
         /\ lastCall' = [NoCall EXCEPT !.op = "removeRoute", !.proc = name,
                           !.had = AppRouted(routes, name),
                           !.success = TRUE, !.osCalls = out.calls]
    /\ UNCHANGED << tunnel, cfgVars, procVars, pollVars, installVars, initialized, osDriver,
                    voice >>

\* getRoutes(), behind ipcMain.handle('audio:getRoutes').
GetRoutes ==
    /\ initialized
    /\ lastCall' = [NoCall EXCEPT !.op = "getRoutes", !.returned = routes]
    /\ UNCHANGED << tunnel, cfgVars, routes, store, osTarget, procVars, pollVars, installVars,
                    initialized, osDriver, voice >>

\* A tick that goes through the list as it was loaded from the store, not
\* through the table as it is.
TickRoutesAtStart(rs, apps) ==
    SelectSeq(<< Route("game", "CABLE Input", 100) >>, LAMBDA r : r.processName \in apps)

\* A tick that applies every route, whatever the snapshot.
TickRoutesAll(rs, apps) == rs

\* The routes one poll tick hands to _applyRoute, given the snapshot it fetched.
TickRoutes(rs, apps) ==
    SelectSeq(rs, LAMBDA r : r.processName \in apps /\ ~AppRouted(rs, r.processName))

\* Applying a list of routes one after the other: the outcomes.
RECURSIVE ApplyAll(_, _)
ApplyAll(rs, osT) ==
    IF rs = << >>
    THEN {[target |-> osT, calls |-> {}]}
    ELSE UNION {{[target |-> rest.target, calls |-> first.calls \cup rest.calls]
                 : rest \in ApplyAll(Tail(rs), first.target)}
                : first \in ApplyRoute(Head(rs), osT)}

\* The callback of the interval _startSessionPolling() sets.
PollTick ==
    /\ pollInterval
    /\ \E apps \in AudioApplications :
         LET todo == TickRoutes(routes, apps)
         IN  \E out \in ApplyAll(todo, osTarget) :
               /\ osTarget' = out.target
               /\ lastCall' = [NoCall EXCEPT !.op = "tick", !.snapshot = apps,
                                 !.applied = RouteNames(todo), !.osCalls = out.calls,
                                 !.restarted = restarted]
    /\ restarted' = {}
    /\ UNCHANGED << tunnel, cfgVars, routes, store, sessions, exited, pollVars, installVars,
                    initialized, osDriver, voice >>

\* _startSessionPolling(): nothing when _pollInterval is set, else a new
\* interval timer, kept in _pollInterval.
\* A _startSessionPolling() without its first line.
StartSessionPollingUnguarded ==
    pollInterval' = TRUE /\ timers' = timers + 1

StartSessionPolling ==
    IF pollInterval
    THEN UNCHANGED pollVars
    ELSE pollInterval' = TRUE /\ timers' = timers + 1

\* initialize()
Initialize ==
    /\ ~initialized
    /\ initialized' = TRUE
    /\ IF platform \in {"win32", "linux"} /\ IsDriverInstalled
       THEN StartSessionPolling
       ELSE UNCHANGED pollVars
    /\ UNCHANGED << tunnel, cfgVars, tableVars, procVars, installVars, osDriver, voice >>

\* ---------------------------------------------------------------- driver install

Result(ok, why) == [success |-> ok, reason |-> why]

\* No exit code yet: the installer has not closed.
NoCode == -1

\* A request before the dialog is answered and before an installer has closed.
NoInput == [consent |-> "unasked", code |-> NoCode]

\* A handler that goes on to install whatever the dialog's answer.
DeclinedNever(consent) == FALSE

\* result.response !== 0: the user did not choose 'Download & Install'.
Declined(consent) == ~consent

\* A 'close' handler that trusts the exit code alone.
InstallerSucceededByCode(code, probe) == code = 0

\* code === 0 && this.isDriverInstalled()
InstallerSucceeded(code, probe) == code = 0 /\ probe

\* Whether a request is inside AudioRouter.installDriver(): fetching the
\* driver pack or waiting for the elevated installer.
Installing(i) == instPc[i] \in {"download", "installer"}

\* The handler's wait for the closing message box, with the result to return.
Report(i, result) ==
    /\ instPc' = [instPc EXCEPT ![i] = "report"]
    /\ instResult' = [instResult EXCEPT ![i] = result]

\* installDriver() on Windows once the installer file is there: spawn the
\* elevated installer and wait for its 'close' or 'error' event.
SpawnInstaller(i) ==
    /\ instPc' = [instPc EXCEPT ![i] = "installer"]
    /\ UNCHANGED instResult

\* _installLinuxModule(): pactl load-module, then the probe.
InstallLinuxModule(i) ==
    IF ~linuxAudio
    THEN /\ Report(i, Result(FALSE, "No PulseAudio or PipeWire detected"))
         /\ UNCHANGED << linuxModuleId, osDriver, pollVars >>
    ELSE \/ /\ Report(i, Result(FALSE, "Failed to create virtual sink"))
            /\ UNCHANGED << linuxModuleId, osDriver, pollVars >>
         \/ \E probe \in BOOLEAN :
              /\ linuxModuleId' = TRUE
              /\ osDriver' = probe
              /\ IF probe
                 THEN StartSessionPolling /\ Report(i, Result(TRUE, ""))
                 ELSE /\ UNCHANGED pollVars
                      /\ Report(i, Result(FALSE, "Module loaded but virtual sink not detected"))

\* ipcMain.handle('audio:installDriver'), up to the confirmation dialog.
InstallRequest(i) ==
    /\ initialized
    /\ instPc[i] = "idle"
    /\ IF IsDriverInstalled
       THEN /\ instPc' = [instPc EXCEPT ![i] = "done"]
            /\ instResult' = [instResult EXCEPT ![i] = Result(TRUE, "already-installed")]
       ELSE /\ instPc' = [instPc EXCEPT ![i] = "confirm"]
            /\ UNCHANGED instResult
    /\ UNCHANGED << tunnel, cfgVars, tableVars, procVars, pollVars, linuxModuleId,
                    installerFile, instInput, initialized, osDriver, voice >>

\* What making the driver directory can do when it is not there yet:
\* fs.mkdirSync returns or throws (a location the user cannot write to).
MkdirOutcomes == {"ok", "throws"}

\* The user answers the confirmation dialog; on consent the handler calls
\* installDriver(), which runs to its first wait.  An exception of mkdirSync
\* leaves installDriver() and the handler: the request ends "rejected", with
\* no result.
InstallConfirm(i, consent, mkdir) ==
    /\ instPc[i] = "confirm"
    /\ instInput' = [instInput EXCEPT ![i].consent = IF consent THEN "yes" ELSE "no"]
    /\ IF Declined(consent)
       THEN /\ instPc' = [instPc EXCEPT ![i] = "done"]
            /\ instResult' = [instResult EXCEPT ![i] = Result(FALSE, "cancelled")]
            /\ UNCHANGED << linuxModuleId, osDriver, pollVars >>
       ELSE CASE platform = "linux" -> InstallLinuxModule(i)
              [] platform = "win32" ->
                   /\ IF installerFile
                      THEN SpawnInstaller(i)
                      ELSE /\ instPc' = [instPc EXCEPT ![i] =
                                           IF mkdir = "throws" THEN "rejected"
                                           ELSE "download"]
                           /\ UNCHANGED instResult
                   /\ UNCHANGED << linuxModuleId, osDriver, pollVars >>
              [] OTHER ->
                   /\ Report(i, Result(FALSE, "Only supported on Windows and Linux"))
                   /\ UNCHANGED << linuxModuleId, osDriver, pollVars >>
    /\ UNCHANGED << tunnel, cfgVars, tableVars, procVars, installerFile, initialized, voice >>

\* What _downloadVBCable() can end with.
DownloadOutcomes == {"network", "extract", "no-installer", "only-32-bit", "ok"}

\* _downloadVBCable() resolves; installDriver() goes on to the final check of
\* the installer file and to the spawn.
DownloadDone(i, outcome) ==
    /\ instPc[i] = "download"
    /\ CASE outcome = "network" ->
              Report(i, Result(FALSE, "Failed to download VB-CABLE")) /\ UNCHANGED installerFile
         [] outcome = "extract" ->
              Report(i, Result(FALSE, "Failed to extract VB-CABLE zip")) /\ UNCHANGED installerFile
         [] outcome = "no-installer" ->
              Report(i, Result(FALSE, "could not find the installer inside"))
              /\ UNCHANGED installerFile
         [] outcome = "only-32-bit" ->
              IF installerFile
              THEN SpawnInstaller(i) /\ UNCHANGED installerFile
              ELSE Report(i, Result(FALSE, "Driver installer not found after download"))
                   /\ UNCHANGED installerFile
         [] OTHER -> installerFile' = TRUE /\ SpawnInstaller(i)
    /\ UNCHANGED << tunnel, cfgVars, tableVars, procVars, pollVars, linuxModuleId, instInput,
                    initialized, osDriver, voice >>

\* The spawned powershell emits 'close' with an exit code; `driver` is whether
\* the OS lists the virtual endpoint by then.
InstallerClose(i, code, driver) ==
    /\ instPc[i] = "installer"
    /\ osDriver' = (osDriver \/ driver)
    /\ instInput' = [instInput EXCEPT ![i].code = code]
    /\ IF InstallerSucceeded(code, osDriver')
       THEN StartSessionPolling /\ Report(i, Result(TRUE, ""))
       ELSE /\ UNCHANGED pollVars
            /\ Report(i, Result(FALSE, "Installation may have been cancelled or failed"))
    /\ UNCHANGED << tunnel, cfgVars, tableVars, procVars, linuxModuleId, installerFile,
                    initialized, voice >>

\* The spawn emits 'error'.
InstallerError(i) ==
    /\ instPc[i] = "installer"
    /\ Report(i, Result(FALSE, "spawn error"))
    /\ UNCHANGED << tunnel, cfgVars, tableVars, procVars, pollVars, linuxModuleId,
                    installerFile, instInput, initialized, osDriver, voice >>

\* The closing message box is dismissed and the handler returns installResult.
InstallReturn(i) ==
    /\ instPc[i] = "report"
    /\ instPc' = [instPc EXCEPT ![i] = "done"]
    /\ UNCHANGED << tunnel, cfgVars, tableVars, procVars, pollVars, linuxModuleId,
                    installerFile, instResult, instInput, initialized, osDriver, voice >>

\* cleanup(), on before-quit.
Cleanup ==
    /\ initialized
    /\ IF pollInterval
       THEN pollInterval' = FALSE /\ timers' = timers - 1
       ELSE UNCHANGED pollVars
    /\ IF platform = "linux" /\ linuxModuleId
       THEN osDriver' \in {osDriver, FALSE}
       ELSE UNCHANGED osDriver
    /\ lastCall' = [NoCall EXCEPT !.op = "cleanup", !.had = pollInterval,
                                  !.again = lastCall.op = "cleanup"]
    /\ UNCHANGED << tunnel, cfgVars, routes, store, osTarget, procVars, installVars,
                    initialized, voice >>

Min(a, b) == IF a < b THEN a ELSE b
Max(a, b) == IF a > b THEN a ELSE b

\* ---------------------------------------------------------------- audio-capture.js

\* The main-process variables, which the renderer's objects never touch.
mainVars == << cfgVars, tableVars, procVars, pollVars, installVars, initialized,
              osDriver >>

\* Ids under which app audio is added to a mixer.
AppIds == ProcNames

\* Volumes handed to addAppAudio and setAppVolume, in hundredths.
MixerVolumes == {80, 250}

\* Volumes handed to AudioCaptureStream.start and setVolume, in hundredths.
CaptureVolumes == {0, 80, 150, 250}

\* What createMediaStreamSource can do: give a node, or throw (a stream
\* without an audio track, a context that is closed).
CreateOutcomes == {"ok", "throws"}

\* The call that has just been made on an object.  op: the method; id: its id
\* argument; known: the mixer had a source under that id; result: the stream
\* returned (0 is null); threw: it raised; done: it has returned or settled;
\* clean: nothing else was called on the object while it waited; again: it
\* was called straight after a destroy() or stop() that had settled; saved:
\* the sources before an addAppAudio of a new id; paired: a removeAppAudio
\* straight after the addAppAudio of the same, new id.
NoObjCall == [op |-> "none", id |-> Absent, known |-> FALSE, result |-> 0,
              threw |-> FALSE, done |-> TRUE, clean |-> TRUE, again |-> FALSE,
              saved |-> << >>, paired |-> FALSE]

\* No entry in AudioMixer.sources under an id.
NoAppSource == [in |-> FALSE, gain |-> 0]

\* An AudioMixer after its constructor.  made: it has been constructed;
\* nulls: its destroy() is the one of
\* the voice integration's copy, which clears its fields at the end;
\* audioContext, micSource: the field is set; ctxState: the state of the
\* context init() made; destination: the stream of the destination node (0:
\* the field is null); returned: the stream init() returned; sources: the
\* Map; connected: how many app gain nodes of an id are connected to the
\* destination; micOn: the node in micGain is connected to it; micConnected:
\* how many microphone gain nodes are; closing: a destroy() waits for close().
NewAudioMixer ==
    [made |-> FALSE, nulls |-> FALSE, audioContext |-> FALSE, ctxState |-> "none",
     destination |-> 0,
     returned |-> 0, sources |-> [id \in AppIds |-> NoAppSource],
     connected |-> [id \in AppIds |-> 0], micSource |-> FALSE, micOn |-> FALSE,
     micConnected |-> 0, closing |-> FALSE, last |-> NoObjCall]

\* The sources of a mixer: its Map, what is connected to the sink, and the
\* microphone.
MixerSources(a) ==
    << a.sources, a.connected, a.micSource, a.micOn, a.micConnected >>

\* Everything of a mixer but the record of the last call.
MixerCore(a) == [a EXCEPT !.last = NoObjCall]

\* AudioMixer.init()
MixerInitObj(a) ==
    [a EXCEPT !.audioContext = TRUE, !.ctxState = "running", !.destination = 1,
              !.returned = 1]

\* A getOutputStream that has no stream while nothing is attached.
MixerOutputStreamIfSources(a) ==
    IF (\E id \in AppIds : a.sources[id].in) \/ a.micSource THEN a.destination ELSE 0

\* AudioMixer.getOutputStream(): this.destination?.stream || null
MixerOutputStream(a) == a.destination

\* A removeAppAudio that disconnects the nodes and keeps the Map's entry.
MixerRemoveKeepsEntry(a, id) ==
    IF a.sources[id].in
    THEN [a EXCEPT !.connected[id] = @ - 1]
    ELSE a

\* AudioMixer.removeAppAudio(id)
MixerRemoveAppAudio(a, id) ==
    IF a.sources[id].in
    THEN [a EXCEPT !.sources[id] = NoAppSource, !.connected[id] = @ - 1]
    ELSE a

\* An addAppAudio that does not remove the existing source first.
MixerAddNoRemove(a, id, vol, create) ==
    IF ~a.audioContext \/ create = "throws"
    THEN a
    ELSE [a EXCEPT !.sources[id] = [in |-> TRUE, gain |-> vol],
                   !.connected[id] = @ + 1]

\* AudioMixer.addAppAudio(id, stream, vol): removeAppAudio(id), then the new
\* nodes; createMediaStreamSource throws on a null audioContext.
MixerAddAppAudio(a, id, vol, create) ==
    LET r == MixerRemoveAppAudio(a, id) IN
    IF ~a.audioContext \/ create = "throws"
    THEN r
    ELSE [r EXCEPT !.sources[id] = [in |-> TRUE, gain |-> vol],
                   !.connected[id] = @ + 1]

\* AudioMixer.setAppVolume(id, vol)
MixerSetAppVolume(a, id, vol) ==
    IF a.sources[id].in
    THEN [a EXCEPT !.sources[id].gain = Max(0, Min(200, vol))]
    ELSE a

\* The disconnect of the microphone nodes, when there are any.
MixerMicDisconnect(a) ==
    IF a.micSource /\ a.micOn
    THEN [a EXCEPT !.micOn = FALSE, !.micConnected = @ - 1]
    ELSE a

\* AudioMixer.addMicrophone(micStream)
MixerAddMicrophone(a, create) ==
    LET r == MixerMicDisconnect(a) IN
    IF ~a.audioContext \/ create = "throws"
    THEN r
    ELSE [r EXCEPT !.micSource = TRUE, !.micOn = TRUE, !.micConnected = @ + 1]

\* The removeAppAudio of every id in the Map.
MixerRemoveAll(a) ==
    [a EXCEPT !.sources = [id \in AppIds |-> NoAppSource],
              !.connected = [id \in AppIds |->
                               IF a.sources[id].in THEN a.connected[id] - 1
                               ELSE a.connected[id]]]

\* A destroy() that calls close() whenever there is a context.
MixerDestroyClosesAlways(a) == a.audioContext

\* destroy() calls close(): this.audioContext?.state !== 'closed', on a
\* context that is there.
MixerDestroyCloses(a) == a.audioContext /\ a.ctxState # "closed"

\* The end of destroy(): nothing more in audio-capture.js; the voice
\* integration's copy clears audioContext, destination and the Map.
MixerDestroyEnd(a) ==
    IF a.nulls
    THEN [a EXCEPT !.audioContext = FALSE, !.destination = 0,
                   !.sources = [id \in AppIds |-> NoAppSource]]
    ELSE a

\* new AudioMixer(), of audio-capture.js or of the voice integration's copy.
MixerNew(nulls) ==
    /\ ~voice.audioMixer.made
    /\ voice' = [voice EXCEPT !.audioMixer = [NewAudioMixer EXCEPT !.made = TRUE,
                                                                  !.nulls = nulls]]
    /\ UNCHANGED << tunnel, mainVars >>

\* The renderer when a call has left the AudioMixer as object a.
MixerSet(a) == [voice EXCEPT !.audioMixer = a]

\* init() is called, once, on a mixer that has not been destroyed.
MixerInit ==
    /\ voice.audioMixer.made
    /\ voice.audioMixer.ctxState = "none"
    /\ voice.audioMixer.last.op # "destroy"
    /\ voice' = LET a == voice.audioMixer IN
                MixerSet([MixerInitObj(a) EXCEPT
                            !.last = [NoObjCall EXCEPT
                                        !.op = "init",
                                        !.result = MixerInitObj(a).destination]])
    /\ UNCHANGED << tunnel, mainVars >>

\* getOutputStream() is called.
MixerGetOutputStream ==
    /\ voice.audioMixer.made
    /\ voice' = LET a == voice.audioMixer IN
                MixerSet([a EXCEPT !.last = [NoObjCall EXCEPT
                                               !.op = "getOutputStream",
                                               !.result = MixerOutputStream(a)]])
    /\ UNCHANGED << tunnel, mainVars >>

\* addMicrophone(micStream) is called.
MixerMicrophone(create) ==
    /\ voice.audioMixer.made
    /\ voice' = LET a == voice.audioMixer IN
                MixerSet([MixerAddMicrophone(a, create) EXCEPT
                            !.last = [NoObjCall EXCEPT
                                        !.op = "addMicrophone",
                                        !.known = a.micSource,
                                        !.threw = ~a.audioContext \/ create = "throws"]])
    /\ UNCHANGED << tunnel, mainVars >>

\* addAppAudio(id, stream, vol) is called.
MixerAdd(id, vol, create) ==
    /\ voice.audioMixer.made
    /\ voice' = LET a == voice.audioMixer IN
                MixerSet([MixerAddAppAudio(a, id, vol, create) EXCEPT
                            !.last = [NoObjCall EXCEPT
                                        !.op = "addAppAudio", !.id = id,
                                        !.known = a.sources[id].in,
                                        !.threw = ~a.audioContext \/ create = "throws",
                                        !.saved = IF a.sources[id].in THEN << >>
                                                  ELSE MixerSources(a)]])
    /\ UNCHANGED << tunnel, mainVars >>

\* setAppVolume(id, vol) is called.
MixerVolume(id, vol) ==
    /\ voice.audioMixer.made
    /\ voice' = LET a == voice.audioMixer IN
                MixerSet([MixerSetAppVolume(a, id, vol) EXCEPT
                            !.last = [NoObjCall EXCEPT !.op = "setAppVolume", !.id = id,
                                                       !.known = a.sources[id].in]])
    /\ UNCHANGED << tunnel, mainVars >>

\* removeAppAudio(id) is called.
MixerRemove(id) ==
    /\ voice.audioMixer.made
    /\ voice' = LET a == voice.audioMixer
                    paired == a.last.op = "addAppAudio" /\ a.last.id = id /\ ~a.last.known
                IN  MixerSet([MixerRemoveAppAudio(a, id) EXCEPT
                                !.last = [NoObjCall EXCEPT
                                            !.op = "removeAppAudio", !.id = id,
                                            !.known = a.sources[id].in,
                                            !.paired = paired,
                                            !.saved = IF paired THEN a.last.saved
                                                      ELSE << >>]])
    /\ UNCHANGED << tunnel, mainVars >>

\* destroy() is called: the sources and the microphone are disconnected, then
\* it waits for close() when it calls it.  A close() on a context that is
\* closed rejects; on one that is being closed it waits too or rejects
\* (`again`).
MixerDestroy(again) ==
    /\ voice.audioMixer.made
    /\ voice' =
         LET a == voice.audioMixer
             after == a.last.op = "destroy" /\ a.last.done /\ a.last.clean /\ ~a.last.threw
             s == MixerMicDisconnect(MixerRemoveAll(a))
             call == [NoObjCall EXCEPT !.op = "destroy", !.again = after]
         IN  MixerSet(
               IF ~MixerDestroyCloses(s)
               THEN [MixerDestroyEnd(s) EXCEPT !.last = call]
               ELSE CASE s.ctxState = "running" ->
                           [s EXCEPT !.ctxState = "closing", !.closing = TRUE,
                                     !.last = [call EXCEPT !.done = FALSE]]
                      [] s.ctxState = "closing" /\ again = "waits" ->
                           [s EXCEPT !.last = [call EXCEPT !.done = FALSE,
                                                           !.clean = FALSE]]
                      [] OTHER ->
                           [s EXCEPT !.last = [call EXCEPT !.threw = TRUE,
                                                           !.clean = FALSE]])
    /\ UNCHANGED << tunnel, mainVars >>

\* close() settles and destroy() runs to its end.
MixerDestroyClosed ==
    /\ voice.audioMixer.closing
    /\ voice' =
         LET a == voice.audioMixer
             s == [a EXCEPT !.ctxState = "closed", !.closing = FALSE]
         IN  MixerSet([MixerDestroyEnd(s) EXCEPT
                         !.last = [NoObjCall EXCEPT
                                     !.op = "destroy",
                                     !.clean = a.last.op = "destroy" /\ a.last.clean,
                                     !.again = a.last.op = "destroy" /\ a.last.again]])
    /\ UNCHANGED << tunnel, mainVars >>

\* An AudioCaptureStream after its constructor.  audioContext, mediaStream,
\* nodes (sourceNode, gainNode, destination): the field is set; ctxState: the
\* state of the context start() made; tracksLive: the tracks of the stream
\* getUserMedia gave are live; nodesOn: the nodes are connected; volume: in
\* hundredths; started: start() has been called; starting: it waits for
\* getUserMedia; stopping: a stop() waits for close().
NewAudioCapture ==
    [isCapturing |-> FALSE, audioContext |-> FALSE, ctxState |-> "none",
     mediaStream |-> FALSE, tracksLive |-> FALSE, nodes |-> FALSE, nodesOn |-> FALSE,
     volume |-> 100, started |-> FALSE, starting |-> FALSE, stopping |-> FALSE,
     last |-> NoObjCall]

\* Everything of a capture but the record of the last call.
CaptureCore(c) == [c EXCEPT !.last = NoObjCall]

\* A capture whose stop() has done everything: not capturing, fields null,
\* tracks stopped, nodes disconnected, no context left open.
CaptureIsReleased(c) ==
    /\ ~c.isCapturing
    /\ ~c.audioContext
    /\ ~c.mediaStream
    /\ ~c.nodes
    /\ ~c.tracksLive
    /\ ~c.nodesOn
    /\ c.ctxState \in {"none", "closed"}

\* stop(), its disconnects and the stopping of the tracks.
CaptureStopSync(c) ==
    [c EXCEPT !.nodesOn = IF c.nodes THEN FALSE ELSE @,
              !.tracksLive = IF c.mediaStream THEN FALSE ELSE @]

\* A stop() that calls close() without looking at the context.
CaptureStopClosesAlways(c) == TRUE

\* stop() calls close(): this.audioContext && this.audioContext.state !== 'closed'
CaptureStopCloses(c) == c.audioContext /\ c.ctxState # "closed"

\* The end of stop(): isCapturing false, every field null.
CaptureStopEnd(c) ==
    [c EXCEPT !.isCapturing = FALSE, !.audioContext = FALSE, !.mediaStream = FALSE,
              !.nodes = FALSE]

\* The renderer when a call has left the AudioCaptureStream as object c.
CaptureSet(c) == [voice EXCEPT !.audioCapture = c]

\* start(deviceId, volume) is called, once: a new context, then the wait for
\* getUserMedia.
CaptureStart ==
    /\ ~voice.audioCapture.started
    /\ voice' = CaptureSet([voice.audioCapture EXCEPT
                              !.started = TRUE, !.starting = TRUE,
                              !.audioContext = TRUE, !.ctxState = "running",
                              !.last = [NoObjCall EXCEPT !.op = "start", !.done = FALSE]])
    /\ UNCHANGED << tunnel, mainVars >>

\* getUserMedia settles: start() builds the graph, or throws.
CaptureStartDone(ok, vol) ==
    /\ voice.audioCapture.starting
    /\ voice' =
         LET c == voice.audioCapture IN
         CaptureSet(
           IF ok
           THEN [c EXCEPT !.starting = FALSE, !.mediaStream = TRUE, !.tracksLive = TRUE,
                          !.nodes = TRUE, !.nodesOn = TRUE, !.volume = vol,
                          !.isCapturing = TRUE,
                          !.last = [NoObjCall EXCEPT !.op = "start"]]
           ELSE [c EXCEPT !.starting = FALSE,
                          !.last = [NoObjCall EXCEPT !.op = "start", !.threw = TRUE]])
    /\ UNCHANGED << tunnel, mainVars >>

\* setVolume(vol) is called.
CaptureSetVolume(vol) ==
    /\ voice' = CaptureSet([voice.audioCapture EXCEPT
                              !.volume = Max(0, Min(200, vol)),
                              !.last = [NoObjCall EXCEPT !.op = "setVolume"]])
    /\ UNCHANGED << tunnel, mainVars >>

\* getState() is called: { isCapturing, volume }.
CaptureGetState ==
    /\ voice' = LET c == voice.audioCapture IN
                CaptureSet([c EXCEPT !.last = [NoObjCall EXCEPT !.op = "getState",
                                                                !.known = c.isCapturing,
                                                                !.result = c.volume]])
    /\ UNCHANGED << tunnel, mainVars >>

\* stop() is called, on a capture whose start() is not waiting (a capture is
\* handed out only when start() has returned).  Calling close() on a null
\* context throws, on a closed context rejects; on one that is being closed
\* it waits too or rejects (`again`).
CaptureStop(again) ==
    /\ ~voice.audioCapture.starting
    /\ voice' =
         LET c == voice.audioCapture
             after == c.last.op = "stop" /\ c.last.done /\ c.last.clean /\ ~c.last.threw
             s == CaptureStopSync(c)
             call == [NoObjCall EXCEPT !.op = "stop", !.again = after,
                                       !.known = c.started]
         IN  CaptureSet(
               IF ~CaptureStopCloses(s)
               THEN [CaptureStopEnd(s) EXCEPT !.last = call]
               ELSE CASE s.audioContext /\ s.ctxState = "running" ->
                           [s EXCEPT !.ctxState = "closing", !.stopping = TRUE,
                                     !.last = [call EXCEPT !.done = FALSE]]
                      [] s.audioContext /\ s.ctxState = "closing" /\ again = "waits" ->
                           [s EXCEPT !.last = [call EXCEPT !.done = FALSE,
                                                           !.clean = FALSE]]
                      [] OTHER ->
                           [s EXCEPT !.last = [call EXCEPT !.threw = TRUE,
                                                           !.clean = FALSE]])
    /\ UNCHANGED << tunnel, mainVars >>

\* close() settles and stop() runs to its end.
CaptureStopClosed ==
    /\ voice.audioCapture.stopping
    /\ voice' =
         LET c == voice.audioCapture
             s == [c EXCEPT !.ctxState = "closed", !.stopping = FALSE]
         IN  CaptureSet([CaptureStopEnd(s) EXCEPT
                           !.last = [NoObjCall EXCEPT
                                       !.op = "stop", !.known = TRUE,
                                       !.clean = c.last.op = "stop" /\ c.last.clean,
                                       !.again = c.last.op = "stop" /\ c.last.again]])
    /\ UNCHANGED << tunnel, mainVars >>

\* ---------------------------------------------------------------- renderer objects

\* An AudioCaptureStream.  st: "unused" (not constructed), "starting" (context
\* open, getUserMedia pending), "capturing", "stopping" (tracks stopped, nodes
\* disconnected, context close pending), "stopped" (every field null again),
\* "failed" (getUserMedia rejected: context open, no stream).  gain: the gain
\* node's value, in hundredths; name: the processName of the route it was
\* made for.
NewCapture == [st |-> "unused", gain |-> 100, name |-> Absent]

\* An AudioMixer.  ctx: "none" (audioContext null), "open", "closing" (close()
\* pending in destroy()); mic: a microphone source is connected to the sink;
\* sources: the app sources, on with their gain in hundredths.
NoSource == [on |-> FALSE, gain |-> 0]

NewMixer == [ctx |-> "none", mic |-> FALSE, sources |-> [n \in ProcNames |-> NoSource]]

\* captureStreams has no entry for a name: cap 0.  pos is the entry's place in
\* the Map's iteration order (keys are ordered by their first insertion).
NoEntry == [cap |-> 0, pos |-> 0]

\* One syncRoutedApps call.  pc: "idle", "getRoutes", "removing", "enum",
\* "start"; snapshot: the routes it fetched; iter: how far
\* its loop over captureStreams has come; k: the route its second loop is at;
\* c, name: the capture and key it is waiting on; setup: called by setupMixer.
IdlePass == [pc |-> "idle", snapshot |-> << >>, iter |-> 0, k |-> 0, c |-> 0,
             name |-> Absent, setup |-> FALSE]

\* What the last replaceVoiceTrack call did: the stream it was given, the
\* peers it found with an audio sender, those it called replaceTrack on,
\* whether it ran to its end.
NoReplace == [stream |-> NullStream, senders |-> {}, attempted |-> {}, failed |-> {},
              completed |-> TRUE]

\* inputDevice: localStorage's haven_input_device ("" when unset or cleared);
\* gum: how many one-time overrides join() has stacked on
\* navigator.mediaDevices.getUserMedia (0: it is the original function);
\* joinOverride: the last join() installed one.
VoiceInit ==
    [mixer |-> 0,
     mixers |-> [m \in MixerIds |-> NewMixer],
     nMixers |-> 0,
     captureStreams |-> [n \in ProcNames |-> NoEntry],
     captures |-> [c \in CaptureIds |-> NewCapture],
     nCaptures |-> 0,
     nEntries |-> 0,
     routeCheckInterval |-> FALSE,
     localStream |-> NullStream,
     peers |-> << >>,
     peerTrack |-> [q \in PeerIds |-> NullStream],
     joinPc |-> "idle",
     joinMixer |-> 0,
     joins |-> 0,
     tdPc |-> "idle",
     tdIter |-> 0,
     tdCap |-> 0,
     tdMixer |-> 0,
     left |-> FALSE,
     pass |-> [i \in PassIds |-> IdlePass],
     lastReplace |-> NoReplace,
     sessionMixer |-> 0,
     inputDevice |-> "",
     gum |-> 0,
     joinOverride |-> FALSE,
     audioMixer |-> NewAudioMixer,
     audioCapture |-> NewAudioCapture]

\* (route.volume || 100) / 100, in hundredths.
RouteVol(route) == IF route.volume = 0 THEN 100 ELSE route.volume

\* AudioMixer.setAppVolume(id, vol): the gain it sets.
SetAppVolumeGain(vol) == Max(0, Min(200, vol))

\* AudioMixer.setAppVolume(id, vol) on mixer object mx.
SetAppVolume(mx, id, vol) ==
    IF mx.sources[id].on
    THEN [mx EXCEPT !.sources[id].gain = SetAppVolumeGain(vol)]
    ELSE mx

\* AudioMixer.removeAppAudio(id)
RemoveAppAudio(mx, id) == [mx EXCEPT !.sources[id] = NoSource]

\* AudioMixer.addAppAudio(id, stream, vol); the caller has checked that the
\* mixer has an audio context.
AddAppAudio(mx, id, vol) == [mx EXCEPT !.sources[id] = [on |-> TRUE, gain |-> vol]]

\* AudioMixer.getOutputStream() of mixer m.
GetOutputStream(v, m) ==
    IF v.mixers[m].ctx = "none" THEN NullStream ELSE MixedStream(m)

\* AudioMixer.destroy(), up to its wait for audioContext.close().
DestroyBegin(mx) ==
    [mx EXCEPT !.sources = [n \in ProcNames |-> NoSource],
               !.mic = FALSE,
               !.ctx = IF mx.ctx = "open" THEN "closing" ELSE mx.ctx]

\* AudioMixer.destroy(), after the wait.
DestroyEnd(mx) ==
    [mx EXCEPT !.ctx = "none", !.sources = [n \in ProcNames |-> NoSource]]

\* AudioCaptureStream.stop(), up to its wait for audioContext.close().
StopBegin(cp) ==
    [cp EXCEPT !.st = IF cp.st \in {"capturing", "failed", "starting"} THEN "stopping"
                      ELSE cp.st]

\* AudioCaptureStream.stop(), after the wait.
StopEnd(cp) == [cp EXCEPT !.st = "stopped"]

\* The entries of captureStreams in iteration order after place `iter`.
EntriesAfter(v, iter) ==
    {n \in ProcNames : v.captureStreams[n].cap # 0 /\ v.captureStreams[n].pos > iter}

\* The first of a non-empty set of entries.
FirstEntry(v, names) ==
    CHOOSE n \in names : \A o \in names : v.captureStreams[n].pos <= v.captureStreams[o].pos

\* The peers replaceVoiceTrack finds with a connection and an audio sender.
AudioSenders(v) == {v.peers[j] : j \in {j \in DOMAIN v.peers : v.peerTrack[v.peers[j]] # NullStream}}

\* The peers whose replaceTrack is reached: every sender up to the first one
\* whose call throws.
Reached(v, oc) ==
    {v.peers[j] : j \in {j \in DOMAIN v.peers :
        /\ v.peerTrack[v.peers[j]] # NullStream
        /\ \A h \in 1..(j - 1) :
             v.peerTrack[v.peers[h]] = NullStream \/ oc[v.peers[h]] # "throws"}}

\* replaceVoiceTrack(newStream) with replaceTrack's outcome on each peer
\* ("ok", "rejects", "throws"): the state it leaves.  The loop ends at a
\* throw, and localStream is then not updated.
ReplaceVoiceTrack(v, newStream, oc) ==
    IF newStream = NullStream
    THEN v
    ELSE LET reached == Reached(v, oc)
             threw == \E q \in reached : oc[q] = "throws"
         IN  [v EXCEPT
                !.peerTrack = [q \in PeerIds |->
                                 IF q \in reached /\ oc[q] = "ok" THEN newStream
                                 ELSE v.peerTrack[q]],
                !.localStream = IF threw THEN v.localStream ELSE newStream,
                !.lastReplace = [stream |-> newStream, senders |-> AudioSenders(v),
                                 attempted |-> reached,
                                 failed |-> {q \in reached : oc[q] # "ok"},
                                 completed |-> ~threw]]

\* stopRoutePolling()
StopRoutePolling(v) == [v EXCEPT !.routeCheckInterval = FALSE]

\* startRoutePolling()
StartRoutePolling(v) == [StopRoutePolling(v) EXCEPT !.routeCheckInterval = TRUE]

\* ---------------------------------------------------------------- getUserMedia

\* The head of join(): with a preferred input device, a one-time override is
\* put in the place of navigator.mediaDevices.getUserMedia, on top of
\* whatever is there.
InstallOverride(v) ==
    IF Truthy(v.inputDevice)
    THEN [v EXCEPT !.gum = @ + 1, !.joinOverride = TRUE]
    ELSE [v EXCEPT !.joinOverride = FALSE]

\* A oneTimeOverride without its first statement: it never puts the
\* original back.
OneTimeOverrideStays(v) == v

\* oneTimeOverride(constraints) is called: it puts back the function it
\* replaced and calls it; when that is an override left by an earlier join()
\* it does the same, down to the original.
OneTimeOverride(v) == [v EXCEPT !.gum = 0]

\* navigator.mediaDevices.getUserMedia(constraints) is called.
GetUserMedia(v) == IF v.gum > 0 THEN OneTimeOverride(v) ELSE v

\* VoiceManager.join(): it calls getUserMedia() for the microphone, whether
\* it then succeeds or fails.
OriginalJoin(v) == GetUserMedia(v)

\* ---------------------------------------------------------------- syncRoutedApps

\* The tail of join() after setupMixer's wait for syncRoutedApps: when that
\* call returned ("done") the track is replaced; when it threw, or
\* replaceVoiceTrack throws, join catches it; startRoutePolling() comes last.
FinishJoin(v, how, oc) ==
    LET replaced == IF how = "done"
                    THEN ReplaceVoiceTrack(v, MixedStream(v.joinMixer), oc)
                    ELSE v
    IN  [StartRoutePolling(replaced) EXCEPT !.joinPc = "idle", !.joinMixer = 0]

\* A syncRoutedApps call ends: `how` is "done" or "threw".  setupMixer goes on
\* after the call it made; a call made by the timer leaves nothing behind.
EndPass(v, i, how, oc) ==
    IF v.pass[i].setup
    THEN FinishJoin([v EXCEPT !.pass[i] = IdlePass], how, oc)
    ELSE [v EXCEPT !.pass[i] = IdlePass]

\* The second loop of syncRoutedApps from route k on, up to its next wait:
\* setAppVolume for routes that have a capture, then enumerateDevices for the
\* first that has none.
RECURSIVE AddLoop(_, _, _, _)
AddLoop(v, i, k, oc) ==
    LET ps == v.pass[i] IN
    IF k > Len(ps.snapshot)
    THEN EndPass(v, i, "done", oc)
    ELSE LET route == ps.snapshot[k]
             name == route.processName
         IN  IF v.captureStreams[name].cap # 0
             THEN IF v.mixer = 0
                  THEN EndPass(v, i, "threw", oc)
                  ELSE AddLoop([v EXCEPT !.mixers[v.mixer] =
                                   SetAppVolume(@, name, RouteVol(route))], i, k + 1, oc)
             ELSE [v EXCEPT !.pass[i] = [ps EXCEPT !.pc = "enum", !.k = k, !.c = 0,
                                                   !.name = name]]

\* The first loop of syncRoutedApps from place iter on, up to its next wait:
\* each capture whose name is no longer routed is taken out of the mixer and
\* stopped.  A capture that is already stopped has no context left to close;
\* `again` is what close() does on a context that is already being closed
\* ("waits" or "rejects").
RECURSIVE RemovalLoop(_, _, _, _)
RemovalLoop(v, i, again, oc) ==
    LET ps == v.pass[i]
        gone == {n \in EntriesAfter(v, ps.iter) : n \notin RouteNames(ps.snapshot)}
    IN  IF gone = {}
        THEN AddLoop(v, i, 1, oc)
        ELSE LET name == FirstEntry(v, gone)
                 e == v.captureStreams[name]
                 cp == v.captures[e.cap]
             IN  IF v.mixer = 0
                 THEN EndPass(v, i, "threw", oc)
                 ELSE LET out == [v EXCEPT !.mixers[v.mixer] = RemoveAppAudio(@, name)] IN
                      IF cp.st = "stopped"
                      THEN RemovalLoop([out EXCEPT !.captureStreams[name] = NoEntry,
                                                   !.pass[i].iter = e.pos], i, again, oc)
                      ELSE IF cp.st = "stopping" /\ again = "rejects"
                      THEN EndPass(out, i, "threw", oc)
                      ELSE [out EXCEPT !.captures[e.cap] = StopBegin(@),
                                       !.pass[i] = [ps EXCEPT !.pc = "removing",
                                                              !.iter = e.pos, !.c = e.cap,
                                                              !.name = name]]

\* syncRoutedApps() is called: it returns at once without a mixer, else it
\* waits for api.getRoutes().
SyncRoutedApps(v, i, setup) ==
    IF v.mixer = 0
    THEN v
    ELSE [v EXCEPT !.pass[i] = [IdlePass EXCEPT !.pc = "getRoutes", !.setup = setup]]

\* captureStreams.set(name, c)
SetEntry(v, name, c) ==
    IF v.captureStreams[name].cap # 0
    THEN [v EXCEPT !.captureStreams[name].cap = c]
    ELSE [v EXCEPT !.captureStreams[name] = [cap |-> c, pos |-> v.nEntries + 1],
                   !.nEntries = v.nEntries + 1]

\* The first free slot for a syncRoutedApps call.
FreePass(v, i) ==
    /\ v.pass[i].pc = "idle"
    /\ \A j \in PassIds : j < i => v.pass[j].pc # "idle"

\* The timer set by startRoutePolling fires.
RouteTick(i) ==
    /\ voice.routeCheckInterval
    /\ FreePass(voice, i)
    /\ voice.mixer # 0
    /\ voice' = SyncRoutedApps(voice, i, FALSE)
    /\ UNCHANGED << tunnel, cfgVars, tableVars, procVars, pollVars, installVars, initialized,
                    osDriver >>

\* api.getRoutes() settles.
GetRoutesDone(i, ok, again, oc) ==
    /\ voice.pass[i].pc = "getRoutes"
    /\ voice' = IF ok
                THEN RemovalLoop([voice EXCEPT !.pass[i].snapshot = routes], i, again, oc)
                ELSE EndPass(voice, i, "done", oc)
    /\ UNCHANGED << tunnel, cfgVars, tableVars, procVars, pollVars, installVars, initialized,
                    osDriver >>

\* capture.stop() settles in the first loop; the entry is deleted.
RemoveStopDone(i, again, oc) ==
    /\ voice.pass[i].pc = "removing"
    /\ LET ps == voice.pass[i] IN
       voice' = RemovalLoop([voice EXCEPT !.captures[ps.c] = StopEnd(@),
                                          !.captureStreams[ps.name] = NoEntry],
                            i, again, oc)
    /\ UNCHANGED << tunnel, cfgVars, tableVars, procVars, pollVars, installVars, initialized,
                    osDriver >>

\* enumerateDevices() settles: it rejects, lists no virtual device, or lists
\* one, and then a capture is made and started, which calls getUserMedia().
EnumDone(i, outcome, oc) ==
    /\ voice.pass[i].pc = "enum"
    /\ LET ps == voice.pass[i] IN
       IF outcome = "found"
       THEN /\ voice.nCaptures < MaxCaptures
            /\ voice' = [GetUserMedia(voice) EXCEPT
                           !.nCaptures = @ + 1,
                           !.captures[voice.nCaptures + 1] =
                              [st |-> "starting", gain |-> 100, name |-> ps.name],
                           !.pass[i] = [ps EXCEPT !.pc = "start", !.c = voice.nCaptures + 1]]
       ELSE voice' = AddLoop(voice, i, ps.k + 1, oc)
    /\ UNCHANGED << tunnel, cfgVars, tableVars, procVars, pollVars, installVars, initialized,
                    osDriver >>

\* A syncRoutedApps whose try/catch is around its second loop and not
\* within it: a capture.start() that rejects ends the call.
StartFailedEndsPass(v, i, oc) ==
    EndPass([v EXCEPT !.captures[v.pass[i].c].st = "failed"], i, "done", oc)

\* capture.start() rejects: the catch within the loop takes it and the loop
\* goes on with the next route.  The capture is left as start() left it.
StartFailed(v, i, oc) ==
    AddLoop([v EXCEPT !.captures[v.pass[i].c].st = "failed"], i, v.pass[i].k + 1, oc)

\* capture.start() settles.  ok: getUserMedia resolved; addOk: whether a
\* context that is being closed still takes a new source node; oc: the
\* outcome of replaceTrack on each peer.
StartDone(i, ok, addOk, oc) ==
    /\ voice.pass[i].pc = "start"
    /\ LET ps == voice.pass[i]
           route == ps.snapshot[ps.k]
           vol == RouteVol(route)
           started == SetEntry([voice EXCEPT !.captures[ps.c] =
                                   [st |-> "capturing", gain |-> vol,
                                    name |-> ps.name]], ps.name, ps.c)
           m == started.mixer
           addThrows == \/ m = 0
                        \/ started.mixers[m].ctx = "none"
                        \/ started.mixers[m].ctx = "closing" /\ ~addOk
           added == [started EXCEPT !.mixers[m] = AddAppAudio(@, ps.name, vol)]
       IN  voice' =
             IF ~ok
             THEN StartFailed(voice, i, oc)
             ELSE IF addThrows
             THEN AddLoop(started, i, ps.k + 1, oc)
             ELSE AddLoop(ReplaceVoiceTrack(added, GetOutputStream(added, m), oc),
                          i, ps.k + 1, oc)
    /\ UNCHANGED << tunnel, cfgVars, tableVars, procVars, pollVars, installVars, initialized,
                    osDriver >>

\* ---------------------------------------------------------------- join, leave

\* Input devices the user can pick in the settings panel; "" is 'System
\* Default'.
InputDevices == {"", "usb-mic"}

\* The 'change' handler of the input device select: the choice goes to
\* localStorage.
SetInputDevice(dev) ==
    /\ voice.inputDevice # dev
    /\ voice' = [voice EXCEPT !.inputDevice = dev]
    /\ UNCHANGED << tunnel, cfgVars, tableVars, procVars, pollVars, installVars, initialized,
                    osDriver >>

\* vm.join(channelCode) is called; it waits for originalJoin.
JoinCall ==
    /\ initialized
    /\ voice.joinPc = "idle"
    /\ voice.joins < MaxJoins
    /\ voice' = InstallOverride([voice EXCEPT !.joinPc = "originalJoin", !.joins = @ + 1,
                                              !.left = FALSE, !.sessionMixer = 0])
    /\ UNCHANGED << tunnel, cfgVars, tableVars, procVars, pollVars, installVars, initialized,
                    osDriver >>

\* vm.join(channelCode) is called once more, in a behaviour of several call
\* sessions.
JoinAgain ==
    /\ initialized
    /\ voice.joinPc = "idle"
    /\ voice.joins >= MaxJoins
    /\ voice.joins < MaxJoins + MaxRejoins
    /\ voice' = InstallOverride([voice EXCEPT !.joinPc = "originalJoin", !.joins = @ + 1,
                                              !.left = FALSE, !.sessionMixer = 0])
    /\ UNCHANGED << tunnel, cfgVars, tableVars, procVars, pollVars, installVars, initialized,
                    osDriver >>

\* originalJoin settles with `success`, having left `stream` in localStream.
\* setupMixer makes and initialises the mixer, feeds it the microphone and
\* calls syncRoutedApps; without a localStream it returns at once.
OriginalJoinDone(i, success, stream) ==
    /\ voice.joinPc = "originalJoin"
    /\ IF success /\ stream # NullStream THEN FreePass(voice, i) ELSE i = 1
    /\ LET called == OriginalJoin(voice)
           joined == [called EXCEPT !.localStream = stream]
           m == voice.nMixers + 1
           made == [joined EXCEPT !.mixer = m, !.nMixers = m, !.joinMixer = m,
                                  !.sessionMixer = m,
                                  !.joinPc = "sync",
                                  !.mixers[m] = [NewMixer EXCEPT !.ctx = "open",
                                                                 !.mic = TRUE]]
       IN  voice' = IF ~success
                    THEN [called EXCEPT !.joinPc = "idle"]
                    ELSE IF stream = NullStream
                    THEN [StartRoutePolling(joined) EXCEPT !.joinPc = "idle"]
                    ELSE SyncRoutedApps(made, i, TRUE)
    /\ UNCHANGED << tunnel, cfgVars, tableVars, procVars, pollVars, installVars, initialized,
                    osDriver >>

\* teardownMixer() from place tdIter of its loop over captureStreams, up to
\* its next wait: the next capture is stopped; after the last one the Map is
\* cleared and the mixer, if there is one, destroyed.  A rejected close()
\* ends teardownMixer where it is.
RECURSIVE TeardownLoop(_, _)
TeardownLoop(v, again) ==
    LET later == EntriesAfter(v, v.tdIter) IN
    IF later # {}
    THEN LET name == FirstEntry(v, later)
             e == v.captureStreams[name]
             cp == v.captures[e.cap]
         IN  IF cp.st = "stopped"
             THEN TeardownLoop([v EXCEPT !.tdIter = e.pos], again)
             ELSE IF cp.st = "stopping" /\ again = "rejects"
             THEN [v EXCEPT !.tdPc = "idle", !.tdIter = 0, !.tdCap = 0]
             ELSE [v EXCEPT !.captures[e.cap] = StopBegin(@), !.tdPc = "stopping",
                            !.tdIter = e.pos, !.tdCap = e.cap]
    ELSE LET cleared == [v EXCEPT !.captureStreams = [n \in ProcNames |-> NoEntry],
                                  !.tdIter = 0, !.tdCap = 0]
         IN  IF v.mixer # 0
             THEN [cleared EXCEPT !.mixers[v.mixer] = DestroyBegin(@),
                                  !.tdPc = "destroying", !.tdMixer = v.mixer]
             ELSE [cleared EXCEPT !.tdPc = "idle"]

\* vm.leave(): stopRoutePolling(), teardownMixer() up to its first wait,
\* originalLeave().
Leave(again) ==
    /\ initialized
    /\ voice.tdPc = "idle"
    /\ LET torn == TeardownLoop(StopRoutePolling(voice), again) IN
       voice' = [torn EXCEPT !.localStream = NullStream, !.peers = << >>,
                             !.peerTrack = [q \in PeerIds |-> NullStream],
                             !.left = TRUE]
    /\ UNCHANGED << tunnel, cfgVars, tableVars, procVars, pollVars, installVars, initialized,
                    osDriver >>

\* capture.stop() settles in teardownMixer.
TeardownStopDone(again) ==
    /\ voice.tdPc = "stopping"
    /\ voice' = TeardownLoop([voice EXCEPT !.captures[voice.tdCap] = StopEnd(@)], again)
    /\ UNCHANGED << tunnel, cfgVars, tableVars, procVars, pollVars, installVars, initialized,
                    osDriver >>

\* mixer.destroy() settles in teardownMixer; `mixer = null` follows.
TeardownDestroyDone ==
    /\ voice.tdPc = "destroying"
    /\ voice' = [voice EXCEPT !.mixers[voice.tdMixer] = DestroyEnd(@), !.mixer = 0,
                              !.tdPc = "idle", !.tdMixer = 0]
    /\ UNCHANGED << tunnel, cfgVars, tableVars, procVars, pollVars, installVars, initialized,
                    osDriver >>

\* A peer connection is added while in the call; its audio sender carries
\* the current localStream.
PeerJoin(q) ==
    /\ voice.joins > 0
    /\ ~voice.left
    /\ \A j \in DOMAIN voice.peers : voice.peers[j] # q
    /\ voice' = [voice EXCEPT !.peers = Append(@, q), !.peerTrack[q] = voice.localStream]
    /\ UNCHANGED << tunnel, cfgVars, tableVars, procVars, pollVars, installVars, initialized,
                    osDriver >>

\* ---------------------------------------------------------------- the OS

\* A process starts producing audio; its output goes to the endpoint the OS
\* remembers for it (Windows keeps the per-application default, a new Linux
\* sink input starts on the default sink).
ProcStart(p) ==
    /\ p \notin sessions
    /\ sessions' = sessions \cup {p}
    /\ osTarget' = IF platform = "linux" THEN [osTarget EXCEPT ![p] = DefaultDevice]
                   ELSE osTarget
    /\ restarted' = IF p \in exited THEN restarted \cup {p} ELSE restarted
    /\ exited' = exited \ {p}
    /\ lastCall' = NoCall
    /\ UNCHANGED << tunnel, cfgVars, routes, store, pollVars, installVars, initialized, osDriver,
                    voice >>

\* A process exits: its audio session goes away.
ProcExit(p) ==
    /\ p \in sessions
    /\ sessions' = sessions \ {p}
    /\ restarted' = restarted \ {p}
    /\ exited' = exited \cup {p}
    /\ lastCall' = NoCall
    /\ UNCHANGED << tunnel, cfgVars, routes, store, osTarget, pollVars, installVars,
                    initialized, osDriver, voice >>

\* ---------------------------------------------------------------- tunnel.js

Providers == {"localtunnel", "cloudflared"}

\* A tunnel object.  kind: what made it; st: "unused" (not made), "alive",
\* "exiting" (a cloudflared process that was killed or failed to spawn: its
\* 'close' event is still to come), "closed"; resolved: the `resolved` flag
\* of the cloudflared promise.
NoTunnel == [kind |-> "none", st |-> "unused", resolved |-> FALSE]

\* A startTunnel call.  pc: "idle", "connecting" (awaiting localtunnel()),
\* "waiting" (awaiting the promise of the cloudflared branch), "done"; t: the
\* cloudflared process it spawned; url: what it returned (0: null, else the
\* URL of that tunnel).
NoTunnelCall == [pc |-> "idle", provider |-> "none", t |-> 0, url |-> 0]

\* activeTunnel and tunnelUrl are 0 for null, else a tunnel and the URL of a
\* tunnel.
TunnelInit ==
    [activeTunnel |-> 0,
     tunnelUrl |-> 0,
     tunnelProvider |-> "none",
     tunnels |-> [t \in TunnelIds |-> NoTunnel],
     nTunnels |-> 0,
     calls |-> [c \in TunnelCallIds |-> NoTunnelCall]]

\* getTunnelStatus()
GetTunnelStatus(s) ==
    [active |-> s.activeTunnel # 0, url |-> s.tunnelUrl, provider |-> s.tunnelProvider]

\* The handler of a tunnel's 'close' event and of a localtunnel 'error'
\* event: () => { activeTunnel = null; tunnelUrl = null; }
OnClose(s, t) == [s EXCEPT !.activeTunnel = 0, !.tunnelUrl = 0]

\* A promise of the cloudflared branch is resolved with url: the startTunnel
\* call awaiting it returns.
Resolve(s, t, url) ==
    [s EXCEPT !.calls = [c \in TunnelCallIds |->
                           IF s.calls[c].pc = "waiting" /\ s.calls[c].t = t
                           THEN [s.calls[c] EXCEPT !.pc = "done", !.url = url]
                           ELSE s.calls[c]]]

\* stopTunnel(): nothing without an active tunnel; else close() on a
\* localtunnel client, which emits 'close' at once, or kill() on a cloudflared
\* process, whose 'close' event comes when it has exited; then both variables
\* are nulled.
StopTunnelOp(s) ==
    IF s.activeTunnel = 0
    THEN s
    ELSE LET t == s.activeTunnel
             stopped ==
               IF s.tunnels[t].kind = "localtunnel"
               THEN OnClose([s EXCEPT !.tunnels[t].st = "closed"], t)
               ELSE [s EXCEPT !.tunnels[t].st =
                                 IF @ = "alive" THEN "exiting" ELSE @]
         IN  [stopped EXCEPT !.activeTunnel = 0, !.tunnelUrl = 0]

\* startTunnel(port, provider) up to its first wait on something outside:
\* stopTunnel() (whose await resumes before any event is delivered), the
\* provider noted, then the cloudflared process spawned and made the active
\* tunnel, or the call to localtunnel() begun.
StartTunnel(c, provider) ==
    /\ tunnel.calls[c].pc = "idle"
    /\ \A b \in TunnelCallIds : b < c => tunnel.calls[b].pc # "idle"
    /\ provider = "cloudflared" => tunnel.nTunnels < MaxTunnels
    /\ LET s == [StopTunnelOp(tunnel) EXCEPT !.tunnelProvider = provider]
           t == tunnel.nTunnels + 1
       IN  tunnel' =
             IF provider = "cloudflared"
             THEN [s EXCEPT !.nTunnels = t,
                            !.tunnels[t] = [kind |-> "cloudflared", st |-> "alive",
                                            resolved |-> FALSE],
                            !.activeTunnel = t,
                            !.calls[c] = [pc |-> "waiting", provider |-> provider,
                                          t |-> t, url |-> 0]]
             ELSE [s EXCEPT !.calls[c] = [pc |-> "connecting", provider |-> provider,
                                          t |-> 0, url |-> 0]]
    /\ UNCHANGED << mainVars, voice >>

\* localtunnel({ port }) settles: with a client, which becomes the active
\* tunnel, or with an error, which the catch turns into null.
LocaltunnelDone(c, ok) ==
    /\ tunnel.calls[c].pc = "connecting"
    /\ ok => tunnel.nTunnels < MaxTunnels
    /\ LET t == tunnel.nTunnels + 1 IN
       tunnel' =
         IF ok
         THEN [tunnel EXCEPT !.nTunnels = t,
                             !.tunnels[t] = [kind |-> "localtunnel", st |-> "alive",
                                             resolved |-> TRUE],
                             !.activeTunnel = t,
                             !.tunnelUrl = t,
                             !.calls[c] = [@ EXCEPT !.pc = "done", !.t = t, !.url = t]]
         ELSE [tunnel EXCEPT !.calls[c] = [@ EXCEPT !.pc = "done"]]
    /\ UNCHANGED << mainVars, voice >>

\* A localtunnel client goes down by itself: it emits 'error' or 'close'.
LocaltunnelDown(t) ==
    /\ tunnel.tunnels[t].kind = "localtunnel"
    /\ tunnel.tunnels[t].st = "alive"
    /\ tunnel' = OnClose([tunnel EXCEPT !.tunnels[t].st = "closed"], t)
    /\ UNCHANGED << mainVars, voice >>

\* A cloudflared process prints its trycloudflare.com URL for the first
\* time: tunnelUrl is set and the promise resolved.
CloudflaredUrl(t) ==
    /\ tunnel.tunnels[t].kind = "cloudflared"
    /\ tunnel.tunnels[t].st \in {"alive", "exiting"}
    /\ ~tunnel.tunnels[t].resolved
    /\ tunnel' = Resolve([tunnel EXCEPT !.tunnels[t].resolved = TRUE, !.tunnelUrl = t],
                         t, t)
    /\ UNCHANGED << mainVars, voice >>

\* The spawn of cloudflared fails: 'error' is emitted, its handler nulls
\* activeTunnel and resolves the promise with null; 'close' follows.
CloudflaredError(t) ==
    /\ tunnel.tunnels[t].kind = "cloudflared"
    /\ tunnel.tunnels[t].st = "alive"
    /\ ~tunnel.tunnels[t].resolved
    /\ tunnel' = Resolve([tunnel EXCEPT !.tunnels[t].st = "exiting",
                                        !.activeTunnel = 0], t, 0)
    /\ UNCHANGED << mainVars, voice >>

\* The 30 s timer of the cloudflared branch fires before a URL was seen.
CloudflaredTimeout(t) ==
    /\ tunnel.tunnels[t].kind = "cloudflared"
    /\ ~tunnel.tunnels[t].resolved
    /\ \E c \in TunnelCallIds : tunnel.calls[c].pc = "waiting" /\ tunnel.calls[c].t = t
    /\ tunnel' = Resolve([tunnel EXCEPT !.tunnels[t].resolved = TRUE], t, 0)
    /\ UNCHANGED << mainVars, voice >>

\* A cloudflared process has exited, killed or by itself, and its 'close'
\* event is delivered.
CloudflaredClose(t) ==
    /\ tunnel.tunnels[t].kind = "cloudflared"
    /\ tunnel.tunnels[t].st \in {"alive", "exiting"}
    /\ tunnel' = OnClose([tunnel EXCEPT !.tunnels[t].st = "closed"], t)
    /\ UNCHANGED << mainVars, voice >>

\* stopTunnel() is called from outside.
StopTunnel ==
    /\ tunnel.activeTunnel # 0
    /\ tunnel' = StopTunnelOp(tunnel)
    /\ UNCHANGED << mainVars, voice >>

\* ---------------------------------------------------------------- Init, Spec

InitBase ==
    /\ platform \in Platforms
    /\ linuxAudio \in BOOLEAN
    /\ (platform # "linux" => linuxAudio = FALSE)
    /\ svv \in BOOLEAN
    /\ (platform # "win32" => svv = FALSE)
    /\ routes = store
    /\ pollInterval = FALSE
    /\ initialized = FALSE
    /\ osDriver \in BOOLEAN
    /\ (platform = "darwin" => ~osDriver)
    /\ (platform = "linux" /\ ~linuxAudio => ~osDriver)
    /\ sessions = {}
    /\ osTarget = [p \in ProcNames |-> DefaultDevice]
    /\ exited = {}
    /\ restarted = {}
    /\ lastCall = NoCall
    /\ timers = 0
    /\ linuxModuleId = FALSE
    /\ instPc = [i \in InstallCalls |-> "idle"]
    /\ instResult = [i \in InstallCalls |-> NoResult]
    /\ instInput = [i \in InstallCalls |-> NoInput]
    /\ voice = VoiceInit
    /\ tunnel = TunnelInit

\* The route table, the route applier and the session poll.
Init ==
    /\ store \in StoredAtStart
    /\ InitBase
    /\ installerFile = FALSE

Next ==
    \/ Initialize
    \/ \E route \in RouteInputs : SetRoute(route)
    \/ \E name \in ProcNames : RemoveRoute(name)
    \/ \E queryOk \in BOOLEAN : GetAudioApplications(queryOk)
    \/ PollTick
    \/ \E p \in ProcNames : ProcStart(p)
    \/ \E p \in ProcNames : ProcExit(p)

Spec == Init /\ [][Next]_vars

\* The route table and its persistence: routes set, removed and read while
\* applications start and the poll runs.
NextTable ==
    \/ Initialize
    \/ \E route \in RouteInputs : SetRoute(route)
    \/ \E name \in ProcNames : RemoveRoute(name)
    \/ GetRoutes
    \/ PollTick
    \/ \E p \in ProcNames : ProcStart(p)

SpecTable == Init /\ [][NextTable]_vars

\* Driver installation, the poll timer and shutdown.
InitInstall ==
    /\ store = << >>
    /\ InitBase
    /\ installerFile \in BOOLEAN
    /\ (platform # "win32" => ~installerFile)

NextInstall ==
    \/ Initialize
    \/ \E i \in InstallCalls : InstallRequest(i)
    \/ \E i \in InstallCalls, consent \in BOOLEAN, mkdir \in MkdirOutcomes :
         InstallConfirm(i, consent, mkdir)
    \/ \E i \in InstallCalls, outcome \in DownloadOutcomes : DownloadDone(i, outcome)
    \/ \E i \in InstallCalls, code \in {0, 1}, driver \in BOOLEAN :
         InstallerClose(i, code, driver)
    \/ \E i \in InstallCalls : InstallerError(i)
    \/ \E i \in InstallCalls : InstallReturn(i)
    \/ Cleanup

SpecInstall == InitInstall /\ [][NextInstall]_vars

\* The voice pipeline in the renderer, on Windows with the driver present:
\* join, leave and the route poll, with the route of one application set,
\* changed and removed under them.  Nobody else is in the call.
VoiceNames == {"game"}

VoiceRoutes == {Route("game", "CABLE Input", 0), Route("game", "CABLE Input", 150)}

ReplaceOutcomes == [PeerIds -> {"ok", "rejects", "throws"}]

AllOk == [q \in PeerIds |-> "ok"]

CloseAgain == {"waits", "rejects"}

InitVoice ==
    /\ store \in StoredAtStart
    /\ InitBase
    /\ installerFile = FALSE
    /\ platform = "win32"
    /\ svv
    /\ osDriver

NextVoice ==
    \/ Initialize
    \/ \E route \in VoiceRoutes : SetRoute(route)
    \/ \E name \in VoiceNames : RemoveRoute(name)
    \/ JoinCall
    \/ \E i \in PassIds, success \in BOOLEAN, stream \in {NullStream, MicStream} :
          OriginalJoinDone(i, success, stream)
    \/ \E again \in CloseAgain : Leave(again)
    \/ \E again \in CloseAgain : TeardownStopDone(again)
    \/ TeardownDestroyDone
    \/ \E i \in PassIds : RouteTick(i)
    \/ \E i \in PassIds, ok \in BOOLEAN, again \in CloseAgain :
          GetRoutesDone(i, ok, again, AllOk)
    \/ \E i \in PassIds, again \in CloseAgain : RemoveStopDone(i, again, AllOk)
    \/ \E i \in PassIds, outcome \in {"rejects", "none", "found"} :
          EnumDone(i, outcome, AllOk)
    \/ \E i \in PassIds, ok \in BOOLEAN, addOk \in BOOLEAN : StartDone(i, ok, addOk, AllOk)

SpecVoice == InitVoice /\ [][NextVoice]_vars

\* Track replacement: the user joins and stays in a call that peers enter,
\* with one application routed from the start.
InitTrack ==
    /\ store = << Route("game", "CABLE Input", 100) >>
    /\ InitBase
    /\ installerFile = FALSE
    /\ platform = "win32"
    /\ svv
    /\ osDriver

NextTrack ==
    \/ Initialize
    \/ JoinCall
    \/ \E i \in PassIds, success \in BOOLEAN, stream \in {NullStream, MicStream} :
          OriginalJoinDone(i, success, stream)
    \/ \E q \in PeerIds : PeerJoin(q)
    \/ \E i \in PassIds : RouteTick(i)
    \/ \E i \in PassIds, ok \in BOOLEAN, oc \in ReplaceOutcomes :
          GetRoutesDone(i, ok, "waits", oc)
    \/ \E i \in PassIds, outcome \in {"rejects", "none", "found"}, oc \in ReplaceOutcomes :
          EnumDone(i, outcome, oc)
    \/ \E i \in PassIds, ok \in BOOLEAN, oc \in ReplaceOutcomes : StartDone(i, ok, TRUE, oc)

SpecTrack == InitTrack /\ [][NextTrack]_vars

\* Call sessions one after the other: join, leave and join again, with one
\* application routed throughout and nobody else in the call.
NextSession ==
    \/ Initialize
    \/ JoinCall
    \/ JoinAgain
    \/ \E i \in PassIds, success \in BOOLEAN, stream \in {NullStream, MicStream} :
          OriginalJoinDone(i, success, stream)
    \/ \E again \in CloseAgain : Leave(again)
    \/ \E again \in CloseAgain : TeardownStopDone(again)
    \/ TeardownDestroyDone
    \/ \E i \in PassIds : RouteTick(i)
    \/ \E i \in PassIds, ok \in BOOLEAN : GetRoutesDone(i, ok, "waits", AllOk)
    \/ \E i \in PassIds, outcome \in {"rejects", "none", "found"} :
          EnumDone(i, outcome, AllOk)
    \/ \E i \in PassIds, ok \in BOOLEAN, addOk \in BOOLEAN : StartDone(i, ok, addOk, AllOk)

SpecSession == InitTrack /\ [][NextSession]_vars

\* Two applications routed when the call begins, and routes removed during
\* the call.
InitPair ==
    /\ store = << Route("game", "CABLE Input", 100), Route("music", "CABLE Input", 150) >>
    /\ InitBase
    /\ installerFile = FALSE
    /\ platform = "win32"
    /\ svv
    /\ osDriver

NextPair ==
    \/ Initialize
    \/ \E name \in ProcNames : RemoveRoute(name)
    \/ JoinCall
    \/ \E i \in PassIds, success \in BOOLEAN, stream \in {NullStream, MicStream} :
          OriginalJoinDone(i, success, stream)
    \/ \E i \in PassIds : RouteTick(i)
    \/ \E i \in PassIds, ok \in BOOLEAN : GetRoutesDone(i, ok, "waits", AllOk)
    \/ \E i \in PassIds : RemoveStopDone(i, "waits", AllOk)
    \/ \E i \in PassIds, outcome \in {"rejects", "none", "found"} :
          EnumDone(i, outcome, AllOk)
    \/ \E i \in PassIds, ok \in BOOLEAN : StartDone(i, ok, TRUE, AllOk)

SpecPair == InitPair /\ [][NextPair]_vars

\* Joining with a preferred input device: the user picks and clears the
\* device in the settings panel and joins twice, one application routed.
NextJoin ==
    \/ Initialize
    \/ \E dev \in InputDevices : SetInputDevice(dev)
    \/ JoinCall
    \/ JoinAgain
    \/ \E i \in PassIds, success \in BOOLEAN, stream \in {NullStream, MicStream} :
          OriginalJoinDone(i, success, stream)
    \/ \E i \in PassIds : RouteTick(i)
    \/ \E i \in PassIds, ok \in BOOLEAN : GetRoutesDone(i, ok, "waits", AllOk)
    \/ \E i \in PassIds, outcome \in {"rejects", "none", "found"} :
          EnumDone(i, outcome, AllOk)
    \/ \E i \in PassIds, ok \in BOOLEAN : StartDone(i, ok, TRUE, AllOk)

SpecJoin == InitTrack /\ [][NextJoin]_vars

\* Gains: one call with one application routed, whose route volume the user
\* changes during the call, up to the largest volume setRoute is given.
GainVolumes == {50, MaxVolumeInput}

InitGain ==
    /\ store \in {<< Route("game", "CABLE Input", v) >> : v \in GainVolumes}
    /\ InitBase
    /\ installerFile = FALSE
    /\ platform = "win32"
    /\ svv
    /\ osDriver

NextGain ==
    \/ Initialize
    \/ \E v \in GainVolumes : SetRoute(Route("game", "CABLE Input", v))
    \/ JoinCall
    \/ \E i \in PassIds, success \in BOOLEAN, stream \in {NullStream, MicStream} :
          OriginalJoinDone(i, success, stream)
    \/ \E i \in PassIds : RouteTick(i)
    \/ \E i \in PassIds, ok \in BOOLEAN : GetRoutesDone(i, ok, "waits", AllOk)
    \/ \E i \in PassIds, outcome \in {"rejects", "none", "found"} :
          EnumDone(i, outcome, AllOk)
    \/ \E i \in PassIds, ok \in BOOLEAN : StartDone(i, ok, TRUE, AllOk)

SpecGain == InitGain /\ [][NextGain]_vars

\* The tunnel module: tunnels of both providers started, stopped and going
\* down, with startTunnel calls that overlap.
NextTunnel ==
    \/ \E c \in TunnelCallIds, provider \in Providers : StartTunnel(c, provider)
    \/ \E c \in TunnelCallIds, ok \in BOOLEAN : LocaltunnelDone(c, ok)
    \/ \E t \in TunnelIds : LocaltunnelDown(t)
    \/ \E t \in TunnelIds : CloudflaredUrl(t)
    \/ \E t \in TunnelIds : CloudflaredError(t)
    \/ \E t \in TunnelIds : CloudflaredTimeout(t)
    \/ \E t \in TunnelIds : CloudflaredClose(t)
    \/ StopTunnel

\* One AudioMixer of either copy, with every call a caller can make on it.
InitMixer ==
    /\ store = << >>
    /\ InitBase
    /\ installerFile = FALSE
    /\ platform = "win32"
    /\ svv
    /\ osDriver

NextMixer ==
    \/ \E nulls \in BOOLEAN : MixerNew(nulls)
    \/ MixerInit
    \/ MixerGetOutputStream
    \/ \E create \in CreateOutcomes : MixerMicrophone(create)
    \/ \E id \in AppIds, vol \in MixerVolumes, create \in CreateOutcomes :
         MixerAdd(id, vol, create)
    \/ \E id \in AppIds, vol \in MixerVolumes : MixerVolume(id, vol)
    \/ \E id \in AppIds : MixerRemove(id)
    \/ \E again \in CloseAgain : MixerDestroy(again)
    \/ MixerDestroyClosed

SpecMixer == InitMixer /\ [][NextMixer]_vars

SpecTunnel == InitMixer /\ [][NextTunnel]_vars

\* One AudioCaptureStream, started at most once, stopped any number of times.
NextCapture ==
    \/ CaptureStart
    \/ \E ok \in BOOLEAN, vol \in CaptureVolumes : CaptureStartDone(ok, vol)
    \/ \E vol \in CaptureVolumes : CaptureSetVolume(vol)
    \/ CaptureGetState
    \/ \E again \in CloseAgain : CaptureStop(again)
    \/ CaptureStopClosed

SpecCapture == InitMixer /\ [][NextCapture]_vars

\* ---------------------------------------------------------------- claims

\* The numbers of the entries of rs for process name n.
EntriesFor(rs, n) == {i \in DOMAIN rs : rs[i].processName = n}

SeqToSet(rs) == {rs[i] : i \in DOMAIN rs}

Clamp(v, lo, hi) == IF v < lo THEN lo ELSE IF v > hi THEN hi ELSE v

\* An AudioRouter operation `op` returns in this step.
Returns(op) == lastCall'.op = op /\ lastCall' # lastCall

\* C1: the route table holds at most one Route per processName, and after an
\* accepted setRoute(r) it holds exactly one entry for r.processName, which
\* carries r's targetDevice and volume.
C1_OneRoutePerProcess ==
    /\ \A i, j \in DOMAIN routes :
         routes[i].processName = routes[j].processName => i = j
    /\ (lastCall.op = "setRoute" /\ lastCall.success) =>
         /\ Cardinality(EntriesFor(routes, lastCall.route.processName)) = 1
         /\ \A i \in EntriesFor(routes, lastCall.route.processName) :
              /\ routes[i].targetDevice = lastCall.route.targetDevice
              /\ routes[i].volume = lastCall.route.volume

\* C1 witness: a setRoute for a process that already had a Route, with another
\* process routed beside it, has returned.
C1_Witness ==
    /\ lastCall.op = "setRoute" /\ lastCall.success /\ lastCall.had
    /\ Len(routes) = 2

\* C2: every stored Route, in memory and persisted, has a volume in [0,200],
\* and an accepted setRoute(r) stores exactly clamp(r.volume, 0, 200).
C2_VolumeClamped ==
    /\ \A i \in DOMAIN routes : routes[i].volume \in 0..200
    /\ \A i \in DOMAIN store : store[i].volume \in 0..200
    /\ (lastCall.op = "setRoute" /\ lastCall.success) =>
         \A i \in EntriesFor(routes, lastCall.route.processName) :
           routes[i].volume = Clamp(lastCall.route.volume, 0, 200)

\* The routes a syncRoutedApps call works from once its step is taken.
PassRoutes(i) ==
    IF voice.pass[i].pc = "getRoutes" THEN routes ELSE voice.pass[i].snapshot

\* C3: whenever a syncRoutedApps call gives a source of the mixer its gain,
\* by adding the source or by updating its volume, the gain is the route's
\* stored volume over 100, for every stored volume from 0 to 200, 0 included.
C3_GainIsStoredVolume ==
    [][\A i \in PassIds, n \in ProcNames :
         LET m == voice.mixer IN
         ( /\ voice.pass[i].pc # "idle"
           /\ voice'.pass[i] # voice.pass[i]
           /\ m # 0
           /\ voice'.mixers[m].sources[n].on
           /\ voice'.mixers[m].sources[n] # voice.mixers[m].sources[n] )
         => \A j \in 1..Len(PassRoutes(i)) :
              ( /\ PassRoutes(i)[j].processName = n
                /\ PassRoutes(i)[j].volume \in 0..200 )
              => voice'.mixers[m].sources[n].gain = PassRoutes(i)[j].volume]_vars

\* C4: a setRoute made while isDriverInstalled() is false is rejected: it
\* returns success:false, runs no OS command and leaves the table as it was.
C4_NoDriverRejects ==
    [][(Returns("setRoute") /\ ~IsDriverInstalled) =>
         /\ ~lastCall'.success
         /\ lastCall'.osCalls = {}
         /\ routes' = routes]_vars

\* C5: a poll tick whose snapshot holds a process that has a Route and that
\* restarted since the tick before invokes the route applier for it.
C5_RestartReapplied ==
    lastCall.op = "tick" =>
      \A p \in lastCall.restarted \cap lastCall.snapshot \cap RouteNames(routes) :
        p \in lastCall.applied

\* C6: at most one request is inside installDriver() (fetching the driver pack
\* or running the elevated installer) at any time.
C6_OneInstallAtATime ==
    Cardinality({i \in InstallCalls : Installing(i)}) <= 1

\* C7: removeRoute(p) returns success; afterwards the table has no entry for
\* p, every other entry is as before and in the same order, and the list is
\* unchanged when p had no Route.
C7_RemoveRoute ==
    [][Returns("removeRoute") =>
         /\ lastCall'.success
         /\ lastCall'.proc \notin RouteNames(routes')
         /\ SeqToSet(routes') =
              {r \in SeqToSet(routes) : r.processName # lastCall'.proc}
         /\ \A i, j \in DOMAIN routes' : i < j =>
              \E k, l \in DOMAIN routes :
                k < l /\ routes[k] = routes'[i] /\ routes[l] = routes'[j]
         /\ (~lastCall'.had => routes' = routes)
         /\ store' = routes']_vars

\* C7 witness: removeRoute has returned for a process that had no Route while
\* another process keeps its Route.
C7_Witness ==
    /\ lastCall.op = "removeRoute" /\ ~lastCall.had
    /\ Len(routes) = 1

\* C8: a setRoute whose route is null or lacks a non-empty processName or
\* targetDevice returns success:false, leaves the table and the persisted list
\* unchanged and runs no OS command.
C8_InvalidRouteRejected ==
    [][(Returns("setRoute") /\ lastCall'.route \in InvalidRoutes) =>
         /\ ~lastCall'.success
         /\ routes' = routes
         /\ store' = store
         /\ lastCall'.applied = {}
         /\ lastCall'.osCalls = {}
         /\ osTarget' = osTarget]_vars

\* C8 witness: a setRoute with an empty targetDevice has returned while the
\* table holds a Route.
C8_Witness ==
    /\ lastCall.op = "setRoute"
    /\ lastCall.route = Route("game", "", 100)
    /\ Len(routes) = 1

\* Nothing of the voice pipeline is under way: no join, no teardown, no
\* syncRoutedApps call.
VoiceQuiet ==
    /\ voice.joinPc = "idle"
    /\ voice.tdPc = "idle"
    /\ \A i \in PassIds : voice.pass[i].pc = "idle"

\* C9: once leave() has been called, with no join() after it, and its
\* teardown and whatever join or syncRoutedApps call it overlapped have run
\* to their end, the route-polling timer is cancelled, no capture is
\* capturing and no mixer holds a source.
C9_LeaveCleansUp ==
    (voice.left /\ VoiceQuiet) =>
        /\ ~voice.routeCheckInterval
        /\ \A c \in CaptureIds : voice.captures[c].st # "capturing"
        /\ \A m \in MixerIds, n \in ProcNames : ~voice.mixers[m].sources[n].on

\* C10: every replaceVoiceTrack call reaches replaceTrack on every peer that
\* has an audio sender, whatever replaceTrack did (threw or rejected) on the
\* others.
C10_EveryPeerAttempted ==
    voice.lastReplace.attempted = voice.lastReplace.senders

\* C11: whenever replaceVoiceTrack has been given the mixer's output, the
\* VoiceManager's localStream is that mixed stream when the call is over,
\* also when replaceTrack failed on a peer.
C11_LocalStreamIsMixed ==
    [][voice'.lastReplace # voice.lastReplace =>
         voice'.localStream = voice'.lastReplace.stream]_vars

\* The setRoute that has just returned accepted its route and the OS command
\* it ran to apply it failed.
ApplyFailed ==
    /\ lastCall.op = "setRoute"
    /\ ~SetRouteRejects(lastCall.route)
    /\ \/ /\ platform = "win32"
          /\ {"SoundVolumeView /SetAppDefault", "ms-settings:apps-volume"}
                \subseteq lastCall.osCalls
       \/ /\ platform = "linux"
          /\ "pactl move-sink-input" \in lastCall.osCalls
          /\ osTarget[lastCall.route.processName] # lastCall.route.targetDevice

\* C12: when the OS-level application of a Route fails, setRoute still
\* returns success and the Route stays in the table, and the next poll tick
\* whose snapshot holds the process invokes the route applier for it.
C12_ApplyFailureRetried ==
    [][ApplyFailed =>
         /\ lastCall.success
         /\ AppRouted(routes, lastCall.route.processName)
         /\ (Returns("tick") /\ lastCall.route.processName \in lastCall'.snapshot)
              => lastCall.route.processName \in lastCall'.applied]_vars

\* C13: a request's result reports success only when the probe is positive
\* at that moment; an installer that closed with exit code 0 while the probe
\* is negative gives success:false.
C13_SuccessNeedsProbe ==
    [][\A i \in InstallCalls :
         instResult'[i] # instResult[i] =>
           /\ instResult'[i].success => IsDriverInstalled'
           /\ (instInput'[i].code = 0 /\ ~IsDriverInstalled') => ~instResult'[i].success]_vars

\* C13 witness: an installer has closed with exit code 0, the probe after it
\* is negative, and the request holds a failure to report.
C13_Witness ==
    \E i \in InstallCalls :
        /\ instInput[i].code = 0
        /\ instPc[i] = "report"
        /\ ~instResult[i].success
        /\ ~IsDriverInstalled

\* C14: when the user declines the confirmation dialog the request is over
\* at once with {success:false, reason:"cancelled"}; the step starts no
\* download and no installer and changes nothing on disk or in the OS, and
\* the request never goes on to install.
C14_DeclineCancels ==
    [][\A i \in InstallCalls :
         /\ (instInput[i].consent = "unasked" /\ instInput'[i].consent = "no") =>
              /\ instPc'[i] = "done"
              /\ instResult'[i] = Result(FALSE, "cancelled")
              /\ UNCHANGED << installerFile, linuxModuleId, osDriver, pollVars >>
              /\ \A j \in InstallCalls : Installing(j)' = Installing(j)
         /\ instInput[i].consent = "no" =>
              /\ instPc'[i] = "done"
              /\ instResult'[i] = Result(FALSE, "cancelled")]_vars

\* C14 witness: a request whose dialog was declined.
C14_Witness ==
    \E i \in InstallCalls : instInput[i].consent = "no" /\ instPc[i] = "done"

\* C15: installDriver never throws or rejects: every request that is past
\* installDriver holds a structured result, and a failure carries a reason.
C15_AlwaysStructured ==
    \A i \in InstallCalls :
        /\ instPc[i] # "rejected"
        /\ (instPc[i] \in {"report", "done"}) =>
             /\ instResult[i] # NoResult
             /\ ~instResult[i].success => instResult[i].reason # ""

\* C16: when the OS audio-session query fails, getAudioApplications raises
\* nothing and returns the empty list, and the route table and the persisted
\* list stay as they were.
C16_QueryFailureGivesEmpty ==
    [][(Returns("getAudioApplications") /\ ~lastCall'.queryOk) =>
         /\ lastCall'.snapshot = {}
         /\ lastCall'.success
         /\ routes' = routes
         /\ store' = store]_vars

\* A failed query while applications were playing and a route was stored.
C16_Witness ==
    /\ lastCall.op = "getAudioApplications"
    /\ ~lastCall.queryOk
    /\ platform \in {"win32", "linux"}
    /\ sessions # {}
    /\ routes # << >>
    /\ lastCall.snapshot = {}

\* C17: a poll tick in which a routed process is missing from the snapshot
\* completes, invokes the applier for no process that is missing, and leaves
\* the route table and the persisted list unchanged.
C17_AbsentProcessSkipped ==
    [][Returns("tick") =>
         /\ lastCall'.applied \cap (RouteNames(routes) \ lastCall'.snapshot) = {}
         /\ routes' = routes
         /\ store' = store]_vars

\* A tick has returned while a routed process had exited.
C17_Witness ==
    /\ lastCall.op = "tick"
    /\ \E p \in RouteNames(routes) : p \in exited /\ p \notin lastCall.snapshot

\* C18: setRoute called again with the route it was just called with, or a
\* poll tick after a setRoute, leaves the route table and the persisted list
\* as one application left them, with one entry for the process, and leaves
\* the output target that the first application set.
C18_ApplyIdempotent ==
    [][/\ (lastCall'.op = "setRoute" /\ lastCall'.again /\ tableVars' # tableVars) =>
            /\ routes' = routes
            /\ store' = store
            /\ Cardinality(EntriesFor(routes', lastCall'.route.processName)) = 1
            /\ osTarget[lastCall'.route.processName] = lastCall'.route.targetDevice
                  => osTarget' = osTarget
       /\ (lastCall.op = "setRoute" /\ lastCall.success /\ Returns("tick")) =>
            /\ routes' = routes
            /\ store' = store
            /\ osTarget[lastCall.route.processName] = lastCall.route.targetDevice
                  => osTarget' = osTarget]_vars

\* The same route has been set twice in a row, the table holding two routes.
C18_Witness ==
    /\ lastCall.op = "setRoute"
    /\ lastCall.again
    /\ Len(routes) = 2
    /\ osTarget[lastCall.route.processName] = lastCall.route.targetDevice

\* C19: on Windows without SoundVolumeView, setRoute of a well-formed route
\* opens the OS audio settings instead, stores and persists the route, and
\* returns success.
C19_FallbackToSettings ==
    [][(/\ Returns("setRoute")
        /\ platform = "win32"
        /\ ~svv
        /\ ~SetRouteRejects(lastCall'.route)) =>
         /\ lastCall'.success
         /\ lastCall'.osCalls = {"ms-settings:apps-volume"}
         /\ lastCall'.route \in SeqToSet(routes')
         /\ store' = routes']_vars

\* A route has been set on Windows without SoundVolumeView.
C19_Witness ==
    /\ lastCall.op = "setRoute"
    /\ platform = "win32"
    /\ ~svv
    /\ ~SetRouteRejects(lastCall.route)
    /\ lastCall.success
    /\ "ms-settings:apps-volume" \in lastCall.osCalls

\* A redirection helper is available: SoundVolumeView on Windows, pactl on
\* Linux.
HelperAvailable ==
    \/ platform = "win32" /\ svv
    \/ platform = "linux" /\ linuxAudio

\* C20: removeRoute of a redirected process either puts its output back on the
\* system default or at least runs the restore command, on Windows and on
\* Linux, when a redirection helper is available; it runs no OS command when
\* there is none.
C20_RemoveRestoresDefault ==
    [][Returns("removeRoute") =>
         /\ (HelperAvailable /\ osTarget[lastCall'.proc] # DefaultDevice) =>
              \/ osTarget'[lastCall'.proc] = DefaultDevice
              \/ lastCall'.osCalls # {}
         /\ ~HelperAvailable => lastCall'.osCalls = {}]_vars

\* C21: the in-memory route list is authoritative and persistence is
\* write-through: when setRoute or removeRoute returns, the persisted list is
\* the in-memory list; getRoutes returns the in-memory list and changes
\* nothing; and the in-memory list changes only in setRoute and removeRoute,
\* never to follow the store.
C21_WriteThrough ==
    [][/\ (Returns("setRoute") \/ Returns("removeRoute")) => store' = routes'
       /\ Returns("getRoutes") =>
            /\ lastCall'.returned = routes
            /\ routes' = routes
            /\ store' = store
       /\ routes' # routes => lastCall'.op \in {"setRoute", "removeRoute"}]_vars

\* getRoutes has returned a table of two routes that the store holds too.
C21_Witness ==
    /\ lastCall.op = "getRoutes"
    /\ Len(lastCall.returned) = 2
    /\ store = routes

\* The AudioMixer and the AudioCaptureStream under test.
TheMixer == voice.audioMixer
TheCapture == voice.audioCapture

\* A call of method op on the mixer returns or settles in this step.
MixerReturns(op) ==
    /\ TheMixer'.last.op = op
    /\ TheMixer'.last.done
    /\ TheMixer' # TheMixer

\* C22: getOutputStream() returns null before init(); from init() on it
\* returns the stream init() returned, with no source attached too; and
\* attaching or removing a source leaves the stream it returns as it was.
C22_OutputStreamStable ==
    [][/\ (MixerReturns("getOutputStream") /\ TheMixer.ctxState = "none") =>
            TheMixer'.last.result = 0
       /\ (MixerReturns("getOutputStream") /\ TheMixer.ctxState = "running") =>
            /\ TheMixer'.last.result = TheMixer.returned
            /\ TheMixer'.last.result # 0
       /\ MixerReturns("init") =>
            /\ TheMixer'.last.result # 0
            /\ MixerOutputStream(TheMixer') = TheMixer'.last.result
       /\ (\E op \in {"addMicrophone", "addAppAudio", "setAppVolume", "removeAppAudio"} :
             MixerReturns(op)) =>
            MixerOutputStream(TheMixer') = MixerOutputStream(TheMixer)]_vars

\* getOutputStream() has returned the stream of a mixer that init() has set
\* up and that has no source and no microphone.
C22_Witness ==
    /\ TheMixer.last.op = "getOutputStream"
    /\ TheMixer.last.result # 0
    /\ TheMixer.ctxState = "running"
    /\ \A id \in AppIds : ~TheMixer.sources[id].in
    /\ ~TheMixer.micSource

\* C23: at most one microphone gain node and, for each id, at most one app
\* gain node is connected to the mixer's sink; addMicrophone disconnects the
\* microphone it had, addAppAudio the source it had under the id, before the
\* new one is attached.
C23_OneSourcePerId ==
    [][/\ TheMixer'.micConnected \in {0, 1}
       /\ \A id \in AppIds : TheMixer'.connected[id] \in {0, 1}
       /\ (MixerReturns("addMicrophone") /\ TheMixer.micOn) =>
            TheMixer'.micConnected = IF TheMixer'.last.threw THEN 0 ELSE 1
       /\ (MixerReturns("addAppAudio") /\ TheMixer'.last.known) =>
            LET id == TheMixer'.last.id IN
            /\ TheMixer'.connected[id] = IF TheMixer'.last.threw THEN 0 ELSE 1
            /\ TheMixer'.sources[id].in = ~TheMixer'.last.threw]_vars

\* addAppAudio has replaced the source of an id while the microphone and the
\* other id were attached.
C23_Witness ==
    /\ TheMixer.last.op = "addAppAudio"
    /\ TheMixer.last.known
    /\ ~TheMixer.last.threw
    /\ TheMixer.micConnected = 1
    /\ \A id \in AppIds : TheMixer.connected[id] = 1

\* C24: a removeAppAudio(id) straight after the addAppAudio of an id that
\* was not in the mixer leaves the sources, the microphone included, as they
\* were before the addAppAudio; removeAppAudio and setAppVolume of an id that
\* is not in the mixer change nothing.
C24_AddRemoveRestores ==
    [][/\ (MixerReturns("removeAppAudio") /\ TheMixer'.last.paired) =>
            MixerSources(TheMixer') = TheMixer'.last.saved
       /\ ((MixerReturns("removeAppAudio") \/ MixerReturns("setAppVolume"))
             /\ ~TheMixer'.last.known) =>
            MixerCore(TheMixer') = MixerCore(TheMixer)]_vars

\* An id has been added and removed again beside the microphone and the
\* source of the other id.
C24_Witness ==
    /\ TheMixer.last.op = "removeAppAudio"
    /\ TheMixer.last.paired
    /\ TheMixer.last.known
    /\ TheMixer.micConnected = 1
    /\ \E id \in AppIds : TheMixer.connected[id] = 1

\* C25: destroy() disconnects every app source and the microphone and, when
\* it has settled, has raised nothing and left no context open; a destroy()
\* called straight after one that has settled raises nothing and leaves the
\* mixer as it was.
C25_DestroyIdempotent ==
    [][/\ (TheMixer'.last.op = "destroy" /\ TheMixer'.last.clean
             /\ TheMixer' # TheMixer) =>
            /\ ~TheMixer'.last.threw
            /\ \A id \in AppIds :
                 /\ ~TheMixer'.sources[id].in
                 /\ TheMixer.sources[id].in =>
                      TheMixer'.connected[id] = TheMixer.connected[id] - 1
            /\ ~TheMixer'.micOn
            /\ TheMixer.micOn => TheMixer'.micConnected = TheMixer.micConnected - 1
            /\ TheMixer'.last.done => TheMixer'.ctxState \in {"none", "closed"}
       /\ (TheMixer'.last.op = "destroy" /\ TheMixer'.last.again
             /\ TheMixer' # TheMixer) =>
            /\ ~TheMixer'.last.threw
            /\ TheMixer'.last.done
            /\ MixerCore(TheMixer') = MixerCore(TheMixer)]_vars

\* A second destroy() has returned on a mixer whose context the first closed.
C25_Witness ==
    /\ TheMixer.last.op = "destroy"
    /\ TheMixer.last.again
    /\ TheMixer.last.done
    /\ TheMixer.ctxState = "closed"
    /\ TheMixer.micSource

\* A call of stop() on the capture returns or settles in this step.
CaptureStopReturns ==
    /\ TheCapture'.last.op = "stop"
    /\ TheCapture'.last.done
    /\ TheCapture' # TheCapture

\* C26: stop() on a capture that was never started raises nothing and
\* changes nothing; a stop() that has settled has raised nothing and leaves
\* the capture not capturing, its tracks stopped, its nodes disconnected, its
\* context closed and its fields null; a stop() called straight after one
\* that has settled raises nothing and leaves the capture as it was.
C26_StopIdempotent ==
    [][/\ (CaptureStopReturns /\ ~TheCapture.started) =>
            /\ ~TheCapture'.last.threw
            /\ CaptureCore(TheCapture') = CaptureCore(TheCapture)
       /\ (CaptureStopReturns /\ TheCapture'.last.clean) =>
            /\ ~TheCapture'.last.threw
            /\ CaptureIsReleased(TheCapture')
       /\ (CaptureStopReturns /\ TheCapture'.last.again) =>
            /\ ~TheCapture'.last.threw
            /\ CaptureCore(TheCapture') = CaptureCore(TheCapture)]_vars

\* A second stop() has returned on a capture that had been capturing.
C26_Witness ==
    /\ TheCapture.last.op = "stop"
    /\ TheCapture.last.again
    /\ TheCapture.last.done
    /\ TheCapture.started
    /\ TheCapture.ctxState = "closed"
    /\ CaptureIsReleased(TheCapture)

\* C27: a poll tick invokes the applier only for routes that are in the table
\* when it runs, and changes the output of no process without one: after
\* removeRoute(p) has returned no tick applies a route for p until p is given
\* a route again.
C27_TickUsesCurrentTable ==
    [][Returns("tick") =>
         /\ lastCall'.applied \subseteq RouteNames(routes)
         /\ \A p \in ProcNames \ RouteNames(routes) : osTarget'[p] = osTarget[p]]_vars

\* A tick has run with a process in its snapshot that setRoute had redirected
\* and whose route has been removed, while another process has a route.
C27_Witness ==
    /\ lastCall.op = "tick"
    /\ "game" \in lastCall.snapshot
    /\ "game" \notin RouteNames(routes)
    /\ osTarget["game"] # DefaultDevice
    /\ "music" \in RouteNames(routes)
    /\ "music" \in lastCall.snapshot

\* The names that have an entry in captureStreams.
CaptureNames == {n \in ProcNames : voice.captureStreams[n].cap # 0}

\* The ids of the app sources of the mixer of the call.
SourceIds == {n \in ProcNames : voice.mixers[voice.mixer].sources[n].on}

\* C28: in a call that has its mixer and that leave() has not ended, whenever
\* no syncRoutedApps call and no join is under way, the names in
\* captureStreams are the ids of the mixer's app sources, and each of them
\* has a capture that is capturing.
C28_CaptureAndSourceTogether ==
    (voice.mixer # 0 /\ ~voice.left /\ VoiceQuiet) =>
        /\ CaptureNames = SourceIds
        /\ \A n \in CaptureNames :
             voice.captures[voice.captureStreams[n].cap].st = "capturing"

\* C29: while the session a join() began is on (no leave() since) and has
\* its mixer, nothing takes that mixer from it or destroys it: what an
\* earlier session's leave() or syncRoutedApps call still has to do leaves
\* the later session's mixer in place and open.
C29_SessionKeepsItsMixer ==
    [][(/\ ~voice.left
        /\ ~voice'.left
        /\ voice.sessionMixer # 0
        /\ voice'.sessionMixer = voice.sessionMixer
        /\ voice.mixer = voice.sessionMixer) =>
         /\ voice'.mixer = voice.mixer
         /\ voice'.mixers[voice.mixer].ctx = voice.mixers[voice.mixer].ctx]_vars

\* C30: in the main process at most one reconciliation timer is alive at any
\* time, whatever the order of initialize(), driver installations that
\* succeed and cleanup(): the timer that is alive is the one _pollInterval
\* holds, _startSessionPolling never adds a second one, and when cleanup()
\* returns, the first time or again, none is left.
C30_AtMostOneTimer ==
    /\ timers = 0
    /\ ~pollInterval
    /\ [][/\ timers' \in {0, 1}
          /\ pollInterval' <=> timers' = 1
          /\ lastCall'.op = "cleanup" /\ lastCall' # lastCall =>
                timers' = 0 /\ ~pollInterval']_vars

\* Two installations have succeeded, each going through _startSessionPolling,
\* and a cleanup() that found the timer has run, and then one more.
C30_Witness ==
    /\ \E i, j \in InstallCalls :
         /\ i # j
         /\ instPc[i] = "done" /\ instResult[i] = Result(TRUE, "")
         /\ instPc[j] = "done" /\ instResult[j] = Result(TRUE, "")
    /\ lastCall.op = "cleanup"
    /\ lastCall.again
    /\ timers = 0


\* C31: every gain a mixer app source is given, when addAppAudio attaches it
\* and when setAppVolume updates it, lies between 0.0 and 2.0 (0 to 200
\* hundredths), for every Route that setRoute accepts.
C31_GainInRange ==
    \A m \in MixerIds, n \in ProcNames :
        voice.mixers[m].sources[n].on => voice.mixers[m].sources[n].gain \in 0..200

\* The gain on the whole path of name n: the capture's gain node, then the
\* mixer source's gain node, in ten-thousandths.
PathGain(v, n) ==
    v.captures[v.captureStreams[n].cap].gain * v.mixers[v.mixer].sources[n].gain

\* C36: when a syncRoutedApps call attaches the source of a routed
\* application or updates its volume, the gain on the whole path from the
\* virtual endpoint to the sink (capture gain times mixer source gain) is the
\* route's volume over 100.
C36_PathGainIsVolume ==
    [][\A i \in PassIds, n \in ProcNames :
         LET m == voice.mixer IN
         ( /\ voice.pass[i].pc \in {"getRoutes", "start"}
           /\ voice'.pass[i] # voice.pass[i]
           /\ m # 0
           /\ voice'.mixer = m
           /\ voice'.mixers[m].sources[n].on
           /\ voice'.captureStreams[n].cap # 0
           /\ voice'.mixers[m].sources[n] # voice.mixers[m].sources[n] )
         => \A j \in 1..Len(PassRoutes(i)) :
              ( /\ PassRoutes(i)[j].processName = n
                /\ PassRoutes(i)[j].volume \in 1..200 )
              => PathGain(voice', n) = PassRoutes(i)[j].volume * 100]_vars


\* The routes of a snapshot after place k whose name has no capture recorded.
LaterUncaptured(v, snapshot, k) ==
    {j \in (k + 1)..Len(snapshot) : v.captureStreams[snapshot[j].processName].cap = 0}

\* C32: when the capture of one route fails to start within a syncRoutedApps
\* pass, the pass goes on to the other routes of its snapshot (it next looks
\* for the device of the first later route that has no capture), the
\* microphone source stays, and every app source the mixer holds stays, its
\* gain changed at most by the pass's own volume update for that route.
C32_CaptureFailureIsolated ==
    [][\A i \in PassIds :
         LET ps == voice.pass[i]
             later == LaterUncaptured(voice', ps.snapshot, ps.k)
         IN  ( /\ ps.pc = "start"
               /\ voice.captures[ps.c].st = "starting"
               /\ voice'.captures[ps.c].st = "failed" )
             => /\ later # {} =>
                     /\ voice'.pass[i].pc = "enum"
                     /\ \A j \in later : voice'.pass[i].k <= j
                     /\ voice'.pass[i].k \in later
                /\ voice'.mixer = voice.mixer
                /\ \A m \in MixerIds :
                     /\ voice'.mixers[m].mic = voice.mixers[m].mic
                     /\ voice'.mixers[m].ctx = voice.mixers[m].ctx
                     /\ \A n \in ProcNames :
                          LET before == voice.mixers[m].sources[n]
                              after == voice'.mixers[m].sources[n]
                          IN  /\ after.on = before.on
                              /\ \/ after.gain = before.gain
                                 \/ \E j \in (ps.k + 1)..Len(ps.snapshot) :
                                      /\ ps.snapshot[j].processName = n
                                      /\ after.gain =
                                           SetAppVolumeGain(RouteVol(ps.snapshot[j]))]_vars

\* In the first pass of a call, the capture of the first route has failed and
\* the pass is looking for the device of the second route, the microphone
\* still in the mixer.
C32_Witness ==
    \E i \in PassIds :
        /\ voice.pass[i].setup
        /\ voice.pass[i].pc = "enum"
        /\ voice.pass[i].k = 2
        /\ voice.nCaptures = 1
        /\ voice.captures[1].st = "failed"
        /\ voice.captures[1].name = voice.pass[i].snapshot[1].processName
        /\ voice.mixer # 0
        /\ voice.mixers[voice.mixer].mic


\* A syncRoutedApps call that has fetched the routes runs to its end in this
\* step (a call whose getRoutes rejects returns without having looked at
\* anything, and one that throws does not reach its end).
PassCompletes(i) ==
    /\ voice.pass[i].pc # "idle"
    /\ voice'.pass[i].pc = "idle"
    /\ voice.pass[i].pc = "getRoutes" => GetRoutesDone(i, TRUE, "waits", AllOk)

\* C33: when a syncRoutedApps pass that fetched the routes after the Route of
\* p was removed runs to its end, and no other pass is left in flight, p has
\* no capture recorded, the capture it had is stopped and the mixer has no
\* source for p; every name still routed
\* that had a running capture and a source has them still.
C33_RemovedRouteTornDown ==
    [][\A i \in PassIds :
         ( /\ PassCompletes(i)
           /\ \A j \in PassIds : voice'.pass[j].pc = "idle"
           /\ voice.mixer # 0
           /\ voice'.mixer = voice.mixer ) =>
           LET names == RouteNames(PassRoutes(i))
               m == voice.mixer
           IN  /\ \A p \in ProcNames \ names :
                    /\ voice'.captureStreams[p].cap = 0
                    /\ ~voice'.mixers[m].sources[p].on
                    /\ voice.captureStreams[p].cap # 0 =>
                         voice'.captures[voice.captureStreams[p].cap].st = "stopped"
               /\ \A n \in names :
                    ( /\ voice.captureStreams[n].cap # 0
                      /\ voice.captures[voice.captureStreams[n].cap].st = "capturing"
                      /\ voice.mixers[m].sources[n].on ) =>
                        /\ voice'.captureStreams[n].cap # 0
                        /\ voice'.captures[voice'.captureStreams[n].cap].st = "capturing"
                        /\ voice'.mixers[m].sources[n].on]_vars


\* C34: at most one AudioCaptureStream is capturing for a process name at
\* any time, also when syncRoutedApps passes overlap, and every capture
\* whose start() has returned and that has not been stopped is the one
\* captureStreams holds for its name.
C34_OneCapturePerName ==
    /\ \A c, d \in CaptureIds :
         ( /\ c # d
           /\ voice.captures[c].st = "capturing"
           /\ voice.captures[d].st = "capturing" ) =>
             voice.captures[c].name # voice.captures[d].name
    /\ \A c \in CaptureIds :
         voice.captures[c].st = "capturing" =>
           voice.captureStreams[voice.captures[c].name].cap = c


C37_SuccessMeansPolling ==
    [][\A i \in InstallCalls :
         ( /\ instResult'[i] # instResult[i]
           /\ instResult'[i].success
           /\ lastCall'.op # "cleanup" ) =>
             pollInterval' /\ timers' = 1]_vars


\* An AudioCaptureStream that holds resources: its audio context is open or
\* being closed, or its media tracks are live.
HoldsResources(cp) == cp.st \in {"starting", "capturing", "failed", "stopping"}

\* C38: a capture whose start() failed, which captureStreams does not
\* record, holds no resources: no audio context left open, no media track
\* left live.
C38_FailedCaptureReleased ==
    \A c \in CaptureIds :
        ( /\ voice.captures[c].st = "failed"
          /\ \A n \in ProcNames : voice.captureStreams[n].cap # c ) =>
            ~HoldsResources(voice.captures[c])

\* The step is a 'close' or 'error' event of tunnel t, delivered while another
\* tunnel is the active one.
StaleEvent(t) ==
    /\ tunnel.activeTunnel # 0
    /\ tunnel.activeTunnel # t
    /\ tunnel.tunnels[t].st \in {"alive", "exiting"}
    /\ tunnel'.tunnels[t].st \in {"exiting", "closed"}
    /\ tunnel'.tunnels[t].st # tunnel.tunnels[t].st

\* C39: a 'close' or 'error' event of a tunnel that was stopped or replaced
\* never clears activeTunnel or tunnelUrl of the tunnel that is active now,
\* and getTunnelStatus().active is true whenever the most recently started
\* tunnel is still alive.
C39_StaleEventKeepsActive ==
    /\ [](tunnel.nTunnels > 0 /\ tunnel.tunnels[tunnel.nTunnels].st = "alive"
            => GetTunnelStatus(tunnel).active)
    /\ [][\A t \in TunnelIds :
            StaleEvent(t) => /\ tunnel'.activeTunnel = tunnel.activeTunnel
                             /\ tunnel'.tunnelUrl = tunnel.tunnelUrl]_vars

\* C40: at most one tunnel is alive at any time, and every tunnel that is
\* alive is the one activeTunnel refers to, also when startTunnel calls
\* overlap.
C40_AliveIsActive ==
    /\ Cardinality({t \in TunnelIds : tunnel.tunnels[t].st = "alive"}) <= 1
    /\ \A t \in TunnelIds : tunnel.tunnels[t].st = "alive" => tunnel.activeTunnel = t

====
